---- MODULE Spec2Model ----
(***************************************************************************)
(* Model of the ImageSetConfiguration engine of the operator catalog       *)
(* viewer: the server's synthesizer (generateImageSetConfig), parser       *)
(* (parseImageSetConfig), version comparison (POST /api/get-latest-        *)
(* versions) and reconciler (POST /api/update-imageset-config), and the    *)
(* "Update ImageSetConfiguration" tab of the browser client that drives    *)
(* them.  Further parts model the catalog decoder and graph builder of the *)
(* operator details, the Update tab followed await by await (SpecAsync),   *)
(* the catalog cache and the temporary containers of the three catalog     *)
(* endpoints (SpecCache), the decoder's brace scan (SpecScan) and stream   *)
(* loop (SpecStream), the version comparison against versions that do not  *)
(* sort as text (SpecOffer), and the client's Fetch tab (SpecFetch),       *)
(* Create tab (SpecCreate) and log panel (SpecLog).                        *)
(*                                                                         *)
(* Conventions.  A JavaScript property that is absent (undefined, deleted) *)
(* or null is the string NULL.  Operator, channel and version names are    *)
(* non-empty strings, so JavaScript truthiness of such a property is       *)
(* "# NULL".  The catalog name and the catalog version, which the code     *)
(* formats into an image reference and recovers with a regular             *)
(* expression, are sequences of one-character strings.  A YAML text is     *)
(* represented by the document tree js-yaml dumps and loads.               *)
(***************************************************************************)
EXTENDS Integers, Sequences, FiniteSets, TLC

VARIABLES
    genReq,      \* body of the last POST /api/generate-imageset-config
    genRes,      \* its response
    parseRes,    \* response of POST /api/parse-imageset-config on genRes.yaml
    apiReq,      \* body of a direct POST /api/update-imageset-config
    apiRes,      \* its response
    catalogFs,   \* the extracted catalog: operator -> its resolved graph
    configFile,  \* the file the user picks on the Update tab
    originalConfigContent,
    parsedConfig,
    currentVersionInfo,
    versionUpdates,
    channelReplacements,
    defaultChannelAdditions,
    defaultChannelReplacements,
    items,       \* the rendered .version-comparison-item elements
    updateButtonDisabled,
    confirmShown,  \* operators named by the last confirm() dialog
    updateReq,   \* body of the last update request the page sent
    updateRes,   \* its response
    dirFiles,    \* the catalog files of an operator directory, in glob order
    dirResult,   \* what parseFBCDirectory made of them
    graphObjects,  \* parsed objects handed to extractChannelsAndVersions
    graphResult, \* the graph it returned
    scanText,    \* remainingContent from the position of a candidate
    scanEnd,     \* endPos of the brace scan on it, from that position
    uploadCalls, \* the configFileInput 'change' handlers, by their await
    selectCall,  \* a channel-replacement 'change' handler awaiting its fetch
    rendering,   \* how many times displayVersionComparison has rendered
    comparedFile,  \* history: the file whose comparison is rendered
    requests,    \* the catalog requests of the server, by their await
    cache,       \* the cache directory of the one catalog and version
    containers,  \* the catalog-temp containers podman holds
    loopContent,   \* remainingContent of the decoder's stream scan
    loopPosition,  \* position, counted from 1
    loopObjects,   \* streamObjects
    loopState,     \* whether the while loop is running or has exited
    createTab,   \* the Create tab: its controls and its module variables
    createCalls, \* the Create tab's handlers awaiting a response
    createReq,   \* body of the last generate request the page sent
    fetchTab,    \* the Fetch tab: its controls and its operator cache
    fetchCalls,  \* the fetchOperators calls awaiting their response
    navigation,  \* the URL parameters of the last View Details navigation
    logsContent, \* the .log-entry elements of the log panel, oldest first
    logCalls     \* history: how many times addLogEntry has been called

NULL == "undefined"

----------------------------------------------------------------------------
(* Bounds and input alphabets                                              *)

MaxSel == 2          \* selections in one generate request
MaxStrLen == 1       \* characters in a catalog name / catalog version
MaxCons == 2         \* channel constraints of a package entry of an input
MaxPkgs == 2         \* package entries of an input document
MaxReq == 2          \* entries of a direct update request, over its lists
MaxGraphChannels == 2  \* channels of one operator in the catalog
MaxObjects == 4       \* parsed objects handed to the Graph Builder
MaxFiles == 2         \* catalog files of one operator directory
MaxScanLen == 6       \* characters of a text handed to the brace scan
MaxUploads == 2       \* 'change' events of the file input
MaxRequests == 2      \* catalog requests the server handles at once
MaxStreamLen == 4     \* characters of a content handed to the stream scan
MaxCalls == 2         \* handlers of one tab awaiting a response at once
MaxSelected == 1      \* selections added on the Create tab
MaxLogCalls == 503    \* calls of addLogEntry

Ops == {"foo", "bar"}
Chan == {"stable", "beta"}
Ver == {"v1", "v2"}
Chars == {"a", ":"}
Markers == Chan \cup {"fast"}   \* defaultChannel markers of input documents

----------------------------------------------------------------------------
(* Generic helpers                                                         *)

Range(s) == {s[i] : i \in 1..Len(s)}

SeqsUpTo(S, n) == UNION {[1..k -> S] : k \in 0..n}

Idle == "idle"

----------------------------------------------------------------------------
(* Synthesizer: generateImageSetConfig                                     *)

RegistryPrefix ==
    <<"r","e","g","i","s","t","r","y",".","r","e","d","h","a","t",".",
      "i","o","/","r","e","d","h","a","t","/">>

\* `registry.redhat.io/redhat/${catalog}:${version}`
ImageName(catalog, version) == RegistryPrefix \o catalog \o <<":">> \o version

\* A faulty variant of PackageConfig, for testing C9_MarkerRule: the marker
\* is copied from the selection even when it names the selected channel.
PackageConfigAlwaysMarked(sel) ==
    [name |-> sel.operator,
     channels |-> <<[name |-> sel.channel,
                     minVersion |-> sel.version,
                     maxVersion |-> NULL]>>,
     defaultChannel |-> sel.defaultChannel]

\* The object built for one selection inside selections.map(...).
PackageConfig(sel) ==
    [name |-> sel.operator,
     channels |-> <<[name |-> sel.channel,
                     minVersion |-> sel.version,
                     maxVersion |-> NULL]>>,
     defaultChannel |->
        IF sel.defaultChannel # NULL /\ sel.defaultChannel # sel.channel
        THEN sel.defaultChannel
        ELSE NULL]

\* A faulty variant of generateImageSetConfig, for testing
\* C10_ShapeAndOrder: the packages come out in reverse selection order.
generateReversed(catalog, version, selections) ==
    [apiVersion |-> "mirror.openshift.io/v2alpha1",
     kind |-> "ImageSetConfiguration",
     mirror |-> [operators |->
        <<[catalog |-> ImageName(catalog, version),
           packages |-> [i \in 1..Len(selections) |->
                            [name |-> selections[Len(selections) + 1 - i].operator,
                             channels |->
                                <<[name |-> selections[Len(selections) + 1 - i].channel,
                                   minVersion |-> selections[Len(selections) + 1 - i].version,
                                   maxVersion |-> NULL]>>,
                             defaultChannel |-> NULL]]]>>]]

generateImageSetConfig(catalog, version, selections) ==
    [apiVersion |-> "mirror.openshift.io/v2alpha1",
     kind |-> "ImageSetConfiguration",
     mirror |-> [operators |->
        <<[catalog |-> ImageName(catalog, version),
           packages |-> [i \in 1..Len(selections) |->
                            PackageConfig(selections[i])]]>>]]

----------------------------------------------------------------------------
(* Parser: parseImageSetConfig                                             *)

RedhatSlash == <<"r","e","d","h","a","t","/">>

\* End (exclusive) of the longest run of non-':' characters starting at j.
RECURSIVE NonColonEnd(_, _)
NonColonEnd(s, j) ==
    IF j > Len(s) \/ s[j] = ":" THEN j ELSE NonColonEnd(s, j + 1)

\* Whether /redhat\/([^:]+):(.+)/ matches with its first character at i.
\* [^:]+ is greedy and can only be followed by ':' where its longest run
\* ends; .+ takes the rest (no line terminator is in the alphabet).
MatchesAt(s, i) ==
    /\ i + 6 <= Len(s)
    /\ \A k \in 1..7 : s[i + k - 1] = RedhatSlash[k]
    /\ LET e == NonColonEnd(s, i + 7)
       IN /\ e > i + 7
          /\ e <= Len(s)
          /\ e + 1 <= Len(s)

\* The start of the leftmost match at or after i, 0 when there is none.
RECURSIVE FirstMatchFrom(_, _)
FirstMatchFrom(s, i) ==
    IF i + 6 > Len(s) THEN 0
    ELSE IF MatchesAt(s, i) THEN i
    ELSE FirstMatchFrom(s, i + 1)

\* catalogImage.match(/redhat\/([^:]+):(.+)/), as catalogName and
\* catalogVersion ('' when there is no match).
CatalogMatch(s) ==
    LET i == FirstMatchFrom(s, 1)
    IN IF i = 0 THEN [catalog |-> <<>>, version |-> <<>>]
       ELSE LET e == NonColonEnd(s, i + 7)
            IN [catalog |-> SubSeq(s, i + 7, e - 1),
                version |-> SubSeq(s, e + 1, Len(s))]

\* A faulty variant of PackageInfo, for testing C2_RoundTrip: the package's
\* defaultChannel marker is not carried through.
PackageInfoWithoutDefault(pkg) ==
    [name |-> pkg.name,
     channel |-> pkg.channels[1].name,
     version |-> IF pkg.channels[1].minVersion # NULL
                 THEN pkg.channels[1].minVersion
                 ELSE IF pkg.channels[1].maxVersion # NULL
                 THEN pkg.channels[1].maxVersion
                 ELSE "",
     defaultChannel |-> NULL]

\* A faulty variant of PackageInfo, for testing C12_FirstConstraint: the
\* selection is taken from the package's last channel constraint.
PackageInfoOfLastChannel(pkg) ==
    LET channel == pkg.channels[Len(pkg.channels)]
    IN [name |-> pkg.name,
        channel |-> channel.name,
        version |-> IF channel.minVersion # NULL THEN channel.minVersion
                    ELSE IF channel.maxVersion # NULL THEN channel.maxVersion
                    ELSE "",
        defaultChannel |-> pkg.defaultChannel]

\* The packageInfo pushed for a package that has at least one channel.
PackageInfo(pkg) ==
    LET channel == pkg.channels[1]
    IN [name |-> pkg.name,
        channel |-> channel.name,
        version |-> IF channel.minVersion # NULL THEN channel.minVersion
                    ELSE IF channel.maxVersion # NULL THEN channel.maxVersion
                    ELSE "",
        defaultChannel |-> pkg.defaultChannel]

RECURSIVE PackageInfos(_)
PackageInfos(pkgs) ==
    IF pkgs = <<>> THEN <<>>
    ELSE LET rest == PackageInfos(Tail(pkgs))
         IN IF /\ "channels" \in DOMAIN Head(pkgs)
               /\ Len(Head(pkgs).channels) > 0
            THEN <<PackageInfo(Head(pkgs))>> \o rest
            ELSE rest

RECURSIVE AllPackageInfos(_)
AllPackageInfos(operators) ==
    IF operators = <<>> THEN <<>>
    ELSE PackageInfos(Head(operators).packages)
            \o AllPackageInfos(Tail(operators))

ParseFailure(message) ==
    [ok |-> FALSE, error |-> message,
     catalog |-> <<>>, version |-> <<>>, catalogImage |-> <<>>,
     packages |-> <<>>]

parseImageSetConfig(config) ==
    IF config.kind # "ImageSetConfiguration"
    THEN ParseFailure("Invalid ImageSetConfiguration file")
    ELSE IF Len(config.mirror.operators) = 0
    THEN ParseFailure("No operators found in configuration")
    ELSE LET operators == config.mirror.operators
             catalogImage == operators[1].catalog
             m == CatalogMatch(catalogImage)
         IN [ok |-> TRUE, error |-> NULL,
             catalog |-> m.catalog,
             version |-> m.version,
             catalogImage |-> catalogImage,
             packages |-> AllPackageInfos(operators)]

----------------------------------------------------------------------------
(* The two endpoints of the Create tab                                     *)

NoResponse == [status |-> 0]

\* app.post('/api/generate-imageset-config')
GenerateEndpoint(body) ==
    IF body.catalog = <<>> \/ body.version = <<>>
    THEN [status |-> 400, success |-> FALSE, yaml |-> NULL]
    ELSE [status |-> 200, success |-> TRUE,
          yaml |-> generateImageSetConfig(body.catalog, body.version,
                                          body.selections)]

\* app.post('/api/parse-imageset-config')
ParseEndpoint(configContent) ==
    LET parsed == parseImageSetConfig(configContent)
    IN IF parsed.ok
       THEN [status |-> 200, success |-> TRUE, parsed |-> parsed]
       ELSE [status |-> 500, success |-> FALSE, parsed |-> parsed]

----------------------------------------------------------------------------
(* Reconciler: app.post('/api/update-imageset-config')                     *)

\* Every package entry of a document, in document order.
RECURSIVE AllPackages(_)
AllPackages(operators) ==
    IF operators = <<>> THEN <<>>
    ELSE Head(operators).packages \o AllPackages(Tail(operators))

\* Whether the package entry has a channels property.  Reading
\* pkg.channels[0] or calling pkg.channels.some on an entry without one
\* throws a TypeError.
HasChannels(pkg) == "channels" \in DOMAIN pkg

ChannelNames(pkg) == {pkg.channels[i].name : i \in 1..Len(pkg.channels)}

\* pkg.channels[0]?.name
FirstChannelName(pkg) ==
    IF Len(pkg.channels) > 0 THEN pkg.channels[1].name ELSE NULL

\* A faulty variant of UpdateMatches, for testing C35_Frame: the update's
\* name is not compared with the package's.
UpdateMatchesAnyName(u, pkg) ==
    /\ HasChannels(pkg)
    /\ IF u.originalChannel # NULL
       THEN u.originalChannel = FirstChannelName(pkg)
       ELSE u.channel = FirstChannelName(pkg)

\* The predicate of updates.find(...) for one update and one package.
UpdateMatches(u, pkg) ==
    /\ u.name = pkg.name
    /\ IF u.originalChannel # NULL
       THEN u.originalChannel = FirstChannelName(pkg)
       ELSE u.channel = FirstChannelName(pkg)

\* A faulty variant of ApplyUpdate, for testing C3_VersionUpdated: the
\* legacy maxVersion of the rewritten constraint is left in place.
ApplyUpdateKeepingMax(pkg, updates) ==
    LET hits == {i \in 1..Len(updates) : UpdateMatches(updates[i], pkg)}
    IN IF hits = {} \/ Len(pkg.channels) = 0 THEN pkg
       ELSE LET u == updates[CHOOSE i \in hits : \A j \in hits : i <= j]
                first == pkg.channels[1]
            IN [pkg EXCEPT !.channels[1] =
                    [name |-> IF u.originalChannel # NULL
                              THEN u.channel ELSE first.name,
                     minVersion |-> u.newVersion,
                     maxVersion |-> first.maxVersion]]

\* The body of the updates loop for one package: the first matching update
\* rewrites channels[0] (name only for a channel replacement) and deletes
\* its maxVersion.
ApplyUpdate(pkg, updates) ==
    LET hits == {i \in 1..Len(updates) : UpdateMatches(updates[i], pkg)}
    IN IF hits = {} \/ Len(pkg.channels) = 0 THEN pkg
       ELSE LET u == updates[CHOOSE i \in hits : \A j \in hits : i <= j]
                first == pkg.channels[1]
            IN [pkg EXCEPT !.channels[1] =
                    [name |-> IF u.originalChannel # NULL
                              THEN u.channel ELSE first.name,
                     minVersion |-> u.newVersion,
                     maxVersion |-> NULL]]

\* A faulty variant of RemoveAndUpdate, for testing C5_Removed: the
\* packages of the operators to remove are kept.
UpdateWithoutRemoving(packages, updates, removeOperators) ==
    [i \in 1..Len(packages) |-> ApplyUpdate(packages[i], updates)]

\* op.packages.filter(pkg => !removeOperators.includes(pkg.name)), then the
\* updates loop over the packages that are left.
RemoveAndUpdate(packages, updates, removeOperators) ==
    LET kept == IF Len(removeOperators) > 0
                THEN SelectSeq(packages,
                               LAMBDA p : p.name \notin Range(removeOperators))
                ELSE packages
    IN [i \in 1..Len(kept) |-> ApplyUpdate(kept[i], updates)]

\* One defaultAdd applied to one package whose name it carries.
ApplyDefaultAdd(pkg, defaultAdd) ==
    LET hasChannel == defaultAdd.channel \in ChannelNames(pkg)
        channels ==
            IF ~hasChannel
            THEN Append(pkg.channels,
                        [name |-> defaultAdd.channel,
                         minVersion |-> defaultAdd.version,
                         maxVersion |-> NULL])
            ELSE LET k == CHOOSE i \in 1..Len(pkg.channels) :
                            /\ pkg.channels[i].name = defaultAdd.channel
                            /\ \A j \in 1..(i - 1) :
                                  pkg.channels[j].name # defaultAdd.channel
                 IN [pkg.channels EXCEPT
                        ![k] = [name |-> pkg.channels[k].name,
                                minVersion |-> defaultAdd.version,
                                maxVersion |-> NULL]]
    IN [pkg EXCEPT
          !.channels = channels,
          !.defaultChannel = IF pkg.defaultChannel = defaultAdd.channel
                             THEN NULL ELSE pkg.defaultChannel]

\* for (const defaultAdd of addDefaultChannels) over one package.
RECURSIVE ApplyDefaultAdds(_, _)
ApplyDefaultAdds(pkg, adds) ==
    IF adds = <<>> THEN pkg
    ELSE ApplyDefaultAdds(
            IF Head(adds).operator = pkg.name
            THEN ApplyDefaultAdd(pkg, Head(adds)) ELSE pkg,
            Tail(adds))

\* A faulty variant of ApplyDefaultParams, for testing C8_Deferred: the
\* setDefaultChannelParam entries are ignored.
IgnoreDefaultParams(pkg, params) == pkg

\* for (const defaultParam of setDefaultChannelParam) over one package.
RECURSIVE ApplyDefaultParams(_, _)
ApplyDefaultParams(pkg, params) ==
    IF params = <<>> THEN pkg
    ELSE ApplyDefaultParams(
            IF /\ Head(params).operator = pkg.name
               /\ Head(params).defaultChannel \notin ChannelNames(pkg)
            THEN [pkg EXCEPT !.defaultChannel = Head(params).defaultChannel]
            ELSE pkg,
            Tail(params))

\* A faulty variant of FinalCleanup, for testing C1_NoRedundantMarker: no
\* marker is deleted.
KeepMarker(pkg) == pkg

\* Final cleanup of one package: a marker naming one of the channels goes.
FinalCleanup(pkg) ==
    IF /\ pkg.defaultChannel # NULL
       /\ HasChannels(pkg)
       /\ pkg.defaultChannel \in ChannelNames(pkg)
    THEN [pkg EXCEPT !.defaultChannel = NULL]
    ELSE pkg

\* The try block of the handler on a loaded ImageSetConfiguration: the four
\* passes over operators and their packages, then the filter that drops the
\* operator entries left without packages.
Reconcile(config, body) ==
    LET ops0 == config.mirror.operators
        ops1 == [k \in 1..Len(ops0) |->
                    [ops0[k] EXCEPT !.packages =
                        RemoveAndUpdate(ops0[k].packages, body.updates,
                                        body.removeOperators)]]
        ops2 == [k \in 1..Len(ops1) |->
                    [ops1[k] EXCEPT !.packages =
                        [i \in 1..Len(ops1[k].packages) |->
                            ApplyDefaultAdds(ops1[k].packages[i],
                                             body.addDefaultChannels)]]]
        ops3 == [k \in 1..Len(ops2) |->
                    [ops2[k] EXCEPT !.packages =
                        [i \in 1..Len(ops2[k].packages) |->
                            ApplyDefaultParams(ops2[k].packages[i],
                                               body.setDefaultChannelParam)]]]
        ops4 == [k \in 1..Len(ops3) |->
                    [ops3[k] EXCEPT !.packages =
                        [i \in 1..Len(ops3[k].packages) |->
                            FinalCleanup(ops3[k].packages[i])]]]
        ops5 == SelectSeq(ops4, LAMBDA op : Len(op.packages) > 0)
    IN [config EXCEPT !.mirror.operators = ops5]

\* Whether the passes throw: a package entry without a channels property
\* that is not removed is reached by updates.find with an update of its
\* name, or by an addDefaultChannels or setDefaultChannelParam entry of its
\* name.
Throws(config, body) ==
    \E p \in Range(AllPackages(config.mirror.operators)) :
        /\ ~HasChannels(p)
        /\ p.name \notin Range(body.removeOperators)
        /\ \/ \E u \in Range(body.updates) : u.name = p.name
           \/ \E a \in Range(body.addDefaultChannels) : a.operator = p.name
           \/ \E d \in Range(body.setDefaultChannelParam) :
                 d.operator = p.name

\* The response of the catch block: an error and its message, no document.
UpdateFailure(message) ==
    [status |-> 500, success |-> FALSE,
     error |-> "Failed to update ImageSetConfiguration", message |-> message]

\* A faulty variant of UpdateEndpoint, for testing C19_NoPartialWrites: when
\* a pass throws, the document is answered as the passes left it, with the
\* packages to remove filtered out and nothing else done.
UpdateEndpointAnsweringPartial(body) ==
    IF body.originalConfig.kind # "ImageSetConfiguration"
    THEN UpdateFailure("Invalid ImageSetConfiguration file")
    ELSE IF Throws(body.originalConfig, body)
    THEN [status |-> 200, success |-> TRUE,
          yaml |-> Reconcile(body.originalConfig,
                             [body EXCEPT !.updates = <<>>,
                                          !.addDefaultChannels = <<>>,
                                          !.setDefaultChannelParam = <<>>])]
    ELSE [status |-> 200, success |-> TRUE,
          yaml |-> Reconcile(body.originalConfig, body)]

\* app.post('/api/update-imageset-config'), for a body that has its
\* originalConfig and its updates array.
UpdateEndpoint(body) ==
    IF body.originalConfig.kind # "ImageSetConfiguration"
    THEN UpdateFailure("Invalid ImageSetConfiguration file")
    ELSE IF Throws(body.originalConfig, body)
    THEN UpdateFailure("Cannot read properties of undefined")
    ELSE [status |-> 200, success |-> TRUE,
          yaml |-> Reconcile(body.originalConfig, body)]

----------------------------------------------------------------------------
(* Version comparison: app.post('/api/get-latest-versions')                *)

\* The graph extractChannelsAndVersions returns for an operator directory
\* that does not exist is never computed: the handler answers before.
NotFound ==
    [found |-> FALSE, parsed |-> FALSE, defaultChannel |-> NULL,
     channels |-> <<>>]

\* An operator directory that exists and for which parseFBCDirectory throws
\* (it holds no catalog file).
Unparsable ==
    [found |-> TRUE, parsed |-> FALSE, defaultChannel |-> NULL,
     channels |-> <<>>]

\* channels.find(c => c.name === name), as the index of the channel (0: none).
ChannelIndex(channels, name) ==
    IF \E i \in 1..Len(channels) : channels[i].name = name
    THEN CHOOSE i \in 1..Len(channels) :
            /\ channels[i].name = name
            /\ \A j \in 1..(i - 1) : channels[j].name # name
    ELSE 0

\* versions[0] of the named channel, NULL when the channel is absent or empty.
LatestOf(graph, name) ==
    LET k == ChannelIndex(graph.channels, name)
    IN IF k # 0 /\ Len(graph.channels[k].versions) > 0
       THEN graph.channels[k].versions[1]
       ELSE NULL

AvailableChannels(graph) ==
    [i \in 1..Len(graph.channels) |-> graph.channels[i].name]

\* The versionInfo entry pushed for one package of the request.
VersionInfoEntry(graph, pkg) ==
    IF ~graph.found
    THEN [name |-> pkg.name, channel |-> pkg.channel,
          currentVersion |-> pkg.version, latestVersion |-> pkg.version,
          hasUpdate |-> FALSE, error |-> "Operator not found",
          operatorNotFound |-> TRUE, channelNotFound |-> FALSE,
          defaultChannel |-> NULL, defaultChannelLatestVersion |-> NULL,
          availableChannels |-> <<>>]
    ELSE IF ~graph.parsed
    THEN [name |-> pkg.name, channel |-> pkg.channel,
          currentVersion |-> pkg.version, latestVersion |-> pkg.version,
          hasUpdate |-> FALSE, error |-> "Failed to parse FBC directory",
          operatorNotFound |-> FALSE, channelNotFound |-> FALSE,
          defaultChannel |-> NULL, defaultChannelLatestVersion |-> NULL,
          availableChannels |-> <<>>]
    ELSE LET defaultChannelLatestVersion ==
                 IF graph.defaultChannel # NULL
                 THEN LatestOf(graph, graph.defaultChannel)
                 ELSE NULL
             latestVersion == LatestOf(graph, pkg.channel)
         IN IF latestVersion # NULL
            THEN [name |-> pkg.name, channel |-> pkg.channel,
                  currentVersion |-> pkg.version,
                  latestVersion |-> latestVersion,
                  hasUpdate |-> latestVersion # pkg.version,
                  error |-> NULL,
                  operatorNotFound |-> FALSE, channelNotFound |-> FALSE,
                  defaultChannel |-> graph.defaultChannel,
                  defaultChannelLatestVersion |-> defaultChannelLatestVersion,
                  availableChannels |-> AvailableChannels(graph)]
            ELSE [name |-> pkg.name, channel |-> pkg.channel,
                  currentVersion |-> pkg.version,
                  latestVersion |-> pkg.version,
                  hasUpdate |-> FALSE, error |-> "Channel not found",
                  operatorNotFound |-> FALSE, channelNotFound |-> TRUE,
                  defaultChannel |-> graph.defaultChannel,
                  defaultChannelLatestVersion |-> defaultChannelLatestVersion,
                  availableChannels |-> AvailableChannels(graph)]

\* A faulty variant of GetLatestVersions, for testing C20_PerOperator: the
\* first package whose operator directory is missing or cannot be parsed
\* ends the loop.
GetLatestVersionsUntilError(fs, body) ==
    LET failed == {i \in 1..Len(body.packages) :
                      ~fs[body.packages[i].name].parsed}
        n == IF failed = {} THEN Len(body.packages)
             ELSE CHOOSE i \in failed : \A j \in failed : i <= j
    IN IF body.catalog = <<>> \/ body.version = <<>>
       THEN [status |-> 400, versionInfo |-> <<>>]
       ELSE [status |-> 200,
             versionInfo |-> [i \in 1..n |->
                                 VersionInfoEntry(fs[body.packages[i].name],
                                                  body.packages[i])]]

\* The handler, on a catalog that is already extracted.
GetLatestVersions(fs, body) ==
    IF body.catalog = <<>> \/ body.version = <<>>
    THEN [status |-> 400, versionInfo |-> <<>>]
    ELSE [status |-> 200,
          versionInfo |-> [i \in 1..Len(body.packages) |->
                              VersionInfoEntry(fs[body.packages[i].name],
                                               body.packages[i])]]

----------------------------------------------------------------------------
(* Update tab of the page: src/public/app.js                               *)

\* A JavaScript Map from operator to a value, as its entries in insertion
\* order.
MapHas(m, k) == \E i \in 1..Len(m) : m[i].operator = k

MapSet(m, entry) ==
    IF MapHas(m, entry.operator)
    THEN [i \in 1..Len(m) |->
             IF m[i].operator = entry.operator THEN entry ELSE m[i]]
    ELSE Append(m, entry)

MapDelete(m, k) == SelectSeq(m, LAMBDA e : e.operator # k)

RECURSIVE MapSetAll(_, _)
MapSetAll(m, entries) ==
    IF entries = <<>> THEN m
    ELSE MapSetAll(MapSet(m, Head(entries)), Tail(entries))

NoCheckbox ==
    [present |-> FALSE, name |-> NULL, channel |-> NULL, version |-> NULL,
     originalChannel |-> NULL, checked |-> FALSE]

\* info.defaultChannelLatestVersion || info.latestVersion
DefaultLatestVersion(info) ==
    IF info.defaultChannelLatestVersion # NULL
    THEN info.defaultChannelLatestVersion
    ELSE info.latestVersion

\* Whether displayVersionComparison renders the Add / Replace / None radios
\* (and presets Add) for an entry.
OffersDefaultChannel(info) ==
    /\ info.defaultChannel # NULL
    /\ ~info.operatorNotFound
    /\ ~info.channelNotFound
    /\ info.channel # info.defaultChannel
    /\ DefaultLatestVersion(info) # NULL

\* The element displayVersionComparison renders for one entry.
RenderItem(info) ==
    [checkbox |->
        IF info.hasUpdate /\ info.error = NULL
        THEN [present |-> TRUE, name |-> info.name, channel |-> info.channel,
              version |-> info.latestVersion, originalChannel |-> NULL,
              checked |-> FALSE]
        ELSE NoCheckbox,
     select |->
        [present |-> ~info.operatorNotFound /\ info.channelNotFound,
         operator |-> info.name,
         originalChannel |-> info.channel,
         options |-> info.availableChannels],
     radios |->
        [present |-> OffersDefaultChannel(info),
         operator |-> info.name,
         channel |-> info.defaultChannel,
         version |-> DefaultLatestVersion(info)]]

\* The defaultChannelAdditions.set(...) calls of one rendering, in order.
PresetAdditions(versionInfo) ==
    LET offered == SelectSeq(versionInfo, OffersDefaultChannel)
    IN MapSetAll(<<>>,
                 [i \in 1..Len(offered) |->
                     [operator |-> offered[i].name,
                      channel |-> offered[i].defaultChannel,
                      version |-> DefaultLatestVersion(offered[i])]])

\* A faulty variant of ReplacementsIncomplete, for testing C21_Gated: one
\* recorded replacement is enough to enable the button.
ReplacementsIncompleteUntilOne(versionInfo, replacements) ==
    /\ Len(replacements) = 0
    /\ \E i \in 1..Len(versionInfo) :
          /\ versionInfo[i].channelNotFound
          /\ ~versionInfo[i].operatorNotFound

\* checkChannelReplacementsComplete: the value it gives the button's
\* disabled property.
ReplacementsIncomplete(versionInfo, replacements) ==
    IF Len(versionInfo) = 0 THEN FALSE
    ELSE \E i \in 1..Len(versionInfo) :
            /\ versionInfo[i].channelNotFound
            /\ ~versionInfo[i].operatorNotFound
            /\ ~MapHas(replacements, versionInfo[i].name)

\* The change handler of an update checkbox, on versionUpdates.  A checkbox
\* rendered by displayVersionComparison and one rendered after a channel
\* replacement have different handlers.
CheckboxChanged(updates, box, checked) ==
    IF box.originalChannel = NULL
    THEN IF checked
         THEN IF \E i \in 1..Len(updates) :
                    updates[i].name = box.name /\ updates[i].channel = box.channel
              THEN updates
              ELSE Append(updates,
                          [name |-> box.name, channel |-> box.channel,
                           newVersion |-> box.version,
                           originalChannel |-> NULL])
         ELSE SelectSeq(updates,
                  LAMBDA u : ~(u.name = box.name /\ u.channel = box.channel))
    ELSE IF checked
         THEN Append(SelectSeq(updates,
                         LAMBDA u : ~(/\ u.name = box.name
                                      /\ u.originalChannel = box.originalChannel)),
                     [name |-> box.name, channel |-> box.channel,
                      newVersion |-> box.version,
                      originalChannel |-> box.originalChannel])
         ELSE SelectSeq(updates,
                  LAMBDA u : ~(u.name = box.name /\ u.channel = box.channel))

\* versionUpdates after the Select All button: one entry per rendered
\* checkbox, built from data-name, data-channel and data-version.
SelectAllUpdates(its) ==
    LET boxes == SelectSeq(its, LAMBDA it : it.checkbox.present)
    IN [i \in 1..Len(boxes) |->
           [name |-> boxes[i].checkbox.name,
            channel |-> boxes[i].checkbox.channel,
            newVersion |-> boxes[i].checkbox.version,
            originalChannel |-> NULL]]

\* missingOperators of the Update button's click handler.
MissingOperators(versionInfo) ==
    LET missing == SelectSeq(versionInfo, LAMBDA info : info.operatorNotFound)
    IN [i \in 1..Len(missing) |-> missing[i].name]

\* A faulty variant of OperatorsNeedingDefaultChannelParam, for testing
\* C22_Exclusive: the two maps are not consulted.
OperatorsNeedingParamRegardless(versionInfo, additions, replacements) ==
    LET need == SelectSeq(versionInfo,
                    LAMBDA info :
                        /\ info.defaultChannel # NULL
                        /\ ~info.operatorNotFound
                        /\ ~info.channelNotFound
                        /\ info.channel # info.defaultChannel)
    IN [i \in 1..Len(need) |->
           [operator |-> need[i].name,
            defaultChannel |-> need[i].defaultChannel]]

\* operatorsNeedingDefaultChannelParam of the click handler.
OperatorsNeedingDefaultChannelParam(versionInfo, additions, replacements) ==
    LET need == SelectSeq(versionInfo,
                    LAMBDA info :
                        /\ info.defaultChannel # NULL
                        /\ ~info.operatorNotFound
                        /\ ~info.channelNotFound
                        /\ info.channel # info.defaultChannel
                        /\ ~MapHas(additions, info.name)
                        /\ ~MapHas(replacements, info.name))
    IN [i \in 1..Len(need) |->
           [operator |-> need[i].name,
            defaultChannel |-> need[i].defaultChannel]]

\* The JSON body the click handler posts.
UpdateBody(content, updates, versionInfo, additions, replacements) ==
    [originalConfig |-> content,
     updates |-> updates,
     removeOperators |-> MissingOperators(versionInfo),
     addDefaultChannels |-> additions,
     replaceWithDefaultChannels |-> replacements,
     setDefaultChannelParam |->
        OperatorsNeedingDefaultChannelParam(versionInfo, additions,
                                            replacements)]

----------------------------------------------------------------------------
(* The Graph Builder: extractChannelsAndVersions                           *)

\* Bundle names and versions are texts: sequences of one-character strings.
\* String.prototype.localeCompare with {numeric: true, sensitivity: 'base'}
\* compares two texts token by token: a run of digits is one token that
\* counts by its value, a letter counts without its case, a digit run sorts
\* before a letter, and a text sorts after its proper prefixes.
Digits == <<"0", "1", "2", "3">>

Letters == <<"a", "v">>

IsDigit(c) == c \in Range(Digits)

DigitValue(c) == (CHOOSE i \in 1..Len(Digits) : Digits[i] = c) - 1

BaseLetter(c) == IF c = "A" THEN "a" ELSE c

LetterRank(c) == CHOOSE i \in 1..Len(Letters) : Letters[i] = BaseLetter(c)

\* The length of the digit run at the head of s.
RECURSIVE DigitRun(_)
DigitRun(s) ==
    IF s # <<>> /\ IsDigit(Head(s)) THEN 1 + DigitRun(Tail(s)) ELSE 0

RECURSIVE NumberOf(_)
NumberOf(s) ==
    IF s = <<>> THEN 0
    ELSE 10 * NumberOf(SubSeq(s, 1, Len(s) - 1)) + DigitValue(s[Len(s)])

RECURSIVE CollationTokens(_)
CollationTokens(s) ==
    IF s = <<>> THEN <<>>
    ELSE IF IsDigit(Head(s))
    THEN LET n == DigitRun(s)
         IN <<[numeric |-> TRUE, value |-> NumberOf(SubSeq(s, 1, n))]>>
               \o CollationTokens(SubSeq(s, n + 1, Len(s)))
    ELSE <<[numeric |-> FALSE, value |-> LetterRank(Head(s))]>>
            \o CollationTokens(Tail(s))

RECURSIVE CompareTokens(_, _)
CompareTokens(t, u) ==
    IF t = <<>> THEN (IF u = <<>> THEN 0 ELSE -1)
    ELSE IF u = <<>> THEN 1
    ELSE IF Head(t).numeric # Head(u).numeric
    THEN (IF Head(t).numeric THEN -1 ELSE 1)
    ELSE IF Head(t).value < Head(u).value THEN -1
    ELSE IF Head(t).value > Head(u).value THEN 1
    ELSE CompareTokens(Tail(t), Tail(u))

\* a.localeCompare(b, undefined, {numeric: true, sensitivity: 'base'})
localeCompare(a, b) == CompareTokens(CollationTokens(a), CollationTokens(b))

\* A faulty variant of SortVersions, for testing C13_Descending: the
\* versions stay in the order in which the entries were read.
KeepInsertionOrder(versions) == versions

\* channelData.versions.sort((a, b) => b.localeCompare(a, ...)): a stable
\* sort, greatest first.
RECURSIVE SortVersions(_)
SortVersions(versions) ==
    IF versions = <<>> THEN <<>>
    ELSE LET sorted == SortVersions(SubSeq(versions, 1, Len(versions) - 1))
             x == versions[Len(versions)]
             before == {i \in 1..Len(sorted) : localeCompare(x, sorted[i]) > 0}
             k == IF before = {} THEN Len(sorted) + 1
                  ELSE CHOOSE i \in before : \A j \in before : i <= j
         IN SubSeq(sorted, 1, k - 1) \o <<x>> \o SubSeq(sorted, k, Len(sorted))

ObjectsOfSchema(parsedObjects, schema) ==
    SelectSeq(parsedObjects, LAMBDA obj : obj.schema = schema)

\* A faulty variant of PackageDefaultChannel, for testing C14_DefaultChannel:
\* the default channel is read from the last olm.package object.
LastPackageDefaultChannel(parsedObjects) ==
    LET packages == ObjectsOfSchema(parsedObjects, "olm.package")
    IN IF packages = <<>> THEN NULL
       ELSE packages[Len(packages)].defaultChannel

\* The defaultChannel of the first olm.package object, if any.
PackageDefaultChannel(parsedObjects) ==
    LET packages == ObjectsOfSchema(parsedObjects, "olm.package")
    IN IF packages = <<>> THEN NULL ELSE packages[1].defaultChannel

\* bundleVersions.get(bundleName): the version of the last olm.bundle
\* object of that name that carries one; the empty text stands for none.
BundleVersion(parsedObjects, bundleName) ==
    LET bundles == SelectSeq(ObjectsOfSchema(parsedObjects, "olm.bundle"),
                             LAMBDA b : b.name = bundleName
                                        /\ b.version # <<>>)
    IN IF bundles = <<>> THEN <<>> ELSE bundles[Len(bundles)].version

\* The versions list of a channel after the entries of one more channel
\* object are read: an entry adds its bundle's version, or its bundle's
\* name when the bundle has none, unless the list includes it already.
RECURSIVE AddEntries(_, _, _)
AddEntries(versions, entries, parsedObjects) ==
    IF entries = <<>> THEN versions
    ELSE LET version == BundleVersion(parsedObjects, Head(entries))
             text == IF version # <<>> THEN version ELSE Head(entries)
         IN AddEntries(IF text \in Range(versions) THEN versions
                       ELSE Append(versions, text),
                       Tail(entries), parsedObjects)

\* The channels map after the channel objects are read, in insertion order.
RECURSIVE ReadChannels(_, _, _)
ReadChannels(channels, channelObjects, parsedObjects) ==
    IF channelObjects = <<>> THEN channels
    ELSE LET obj == Head(channelObjects)
             known == {i \in 1..Len(channels) : channels[i].name = obj.name}
             opened == IF known = {}
                       THEN Append(channels,
                                   [name |-> obj.name, versions |-> <<>>])
                       ELSE channels
             k == CHOOSE i \in 1..Len(opened) : opened[i].name = obj.name
         IN IF obj.name = NULL
            THEN ReadChannels(channels, Tail(channelObjects), parsedObjects)
            ELSE ReadChannels(
                     [opened EXCEPT ![k].versions =
                         AddEntries(opened[k].versions, obj.entries,
                                    parsedObjects)],
                     Tail(channelObjects), parsedObjects)

extractChannelsAndVersions(parsedObjects) ==
    LET defaultChannel == PackageDefaultChannel(parsedObjects)
        read == ReadChannels(<<>>,
                             ObjectsOfSchema(parsedObjects, "olm.channel"),
                             parsedObjects)
        channels == [i \in 1..Len(read) |->
                        [name |-> read[i].name,
                         versions |-> SortVersions(read[i].versions)]]
    IN [defaultChannel |-> IF defaultChannel # NULL THEN defaultChannel
                           ELSE IF Len(channels) > 0 THEN channels[1].name
                           ELSE NULL,
        channels |-> channels]

----------------------------------------------------------------------------
(* The Decoder: parseFBCDirectory                                          *)

\* The content of a file is a text.  JSON.parse is modelled on the part of
\* JSON that these texts use: objects, arrays, strings with the escapes \"
\* and \\, unsigned integers, and blanks and newlines between tokens.  A
\* parsed value is its type, its text without insignificant white space
\* and, for an array, its elements.
Quote == "\""
Backslash == "\\"
Newline == "\n"

IsSpace(c) == c \in {" ", Newline}

\* The first index from i on that does not hold white space.
RECURSIVE SkipSpace(_, _)
SkipSpace(s, i) ==
    IF i <= Len(s) /\ IsSpace(s[i]) THEN SkipSpace(s, i + 1) ELSE i

\* content.trim()
RECURSIVE TrimEnd(_)
TrimEnd(s) ==
    IF s # <<>> /\ IsSpace(s[Len(s)])
    THEN TrimEnd(SubSeq(s, 1, Len(s) - 1)) ELSE s

Trim(s) == TrimEnd(SubSeq(s, SkipSpace(s, 1), Len(s)))

SyntaxError == [ok |-> FALSE, next |-> 0, value |-> NULL]

Parsed(type, text, elements, next) ==
    [ok |-> TRUE, next |-> next,
     value |-> [type |-> type, text |-> text, elements |-> elements]]

\* The index of the quote that closes the string opened before k, or 0.
RECURSIVE StringEnd(_, _)
StringEnd(s, k) ==
    IF k > Len(s) \/ s[k] = Newline THEN 0
    ELSE IF s[k] = Quote THEN k
    ELSE IF s[k] = Backslash
    THEN IF k < Len(s) /\ s[k + 1] \in {Quote, Backslash}
         THEN StringEnd(s, k + 2) ELSE 0
    ELSE StringEnd(s, k + 1)

ParseString(s, j) ==
    LET k == StringEnd(s, j + 1)
    IN IF k = 0 THEN SyntaxError
       ELSE Parsed("string", SubSeq(s, j, k), <<>>, k + 1)

ParseNumber(s, j) ==
    LET n == DigitRun(SubSeq(s, j, Len(s)))
    IN IF n > 1 /\ s[j] = "0" THEN SyntaxError
       ELSE Parsed("number", SubSeq(s, j, j + n - 1), <<>>, j + n)

RECURSIVE ParseValue(_, _)
RECURSIVE ParseMembers(_, _, _)
RECURSIVE ParseElements(_, _, _, _)

\* The members of an object from index j on, after the members whose text
\* is in text; j holds the first character of a key.
ParseMembers(s, j, text) ==
    IF j > Len(s) \/ s[j] # Quote THEN SyntaxError
    ELSE LET key == ParseString(s, j)
             colon == SkipSpace(s, key.next)
         IN IF ~key.ok \/ colon > Len(s) \/ s[colon] # ":" THEN SyntaxError
            ELSE LET member == ParseValue(s, colon + 1)
                     after == SkipSpace(s, member.next)
                     sofar == text \o key.value.text \o <<":">>
                                   \o member.value.text
                 IN IF ~member.ok \/ after > Len(s) THEN SyntaxError
                    ELSE IF s[after] = "}"
                    THEN Parsed("object", sofar \o <<"}">>, <<>>, after + 1)
                    ELSE IF s[after] = ","
                    THEN ParseMembers(s, SkipSpace(s, after + 1),
                                      sofar \o <<",">>)
                    ELSE SyntaxError

\* The elements of an array from index j on, after those in elements.
ParseElements(s, j, text, elements) ==
    LET element == ParseValue(s, j)
        after == SkipSpace(s, element.next)
        sofar == text \o element.value.text
    IN IF ~element.ok \/ after > Len(s) THEN SyntaxError
       ELSE IF s[after] = "]"
       THEN Parsed("array", sofar \o <<"]">>,
                   Append(elements, element.value), after + 1)
       ELSE IF s[after] = ","
       THEN ParseElements(s, after + 1, sofar \o <<",">>,
                          Append(elements, element.value))
       ELSE SyntaxError

\* The value that starts at or after index i.
ParseValue(s, i) ==
    LET j == SkipSpace(s, i)
        k == SkipSpace(s, j + 1)
    IN IF j > Len(s) THEN SyntaxError
       ELSE IF s[j] = "{"
       THEN IF k <= Len(s) /\ s[k] = "}"
            THEN Parsed("object", <<"{", "}">>, <<>>, k + 1)
            ELSE ParseMembers(s, k, <<"{">>)
       ELSE IF s[j] = "["
       THEN IF k <= Len(s) /\ s[k] = "]"
            THEN Parsed("array", <<"[", "]">>, <<>>, k + 1)
            ELSE ParseElements(s, k, <<"[">>, <<>>)
       ELSE IF s[j] = Quote THEN ParseString(s, j)
       ELSE IF IsDigit(s[j]) THEN ParseNumber(s, j)
       ELSE SyntaxError

\* JSON.parse(text): the value, or a SyntaxError.
JSONParse(text) ==
    LET r == ParseValue(text, 1)
    IN IF r.ok /\ SkipSpace(text, r.next) > Len(text) THEN r
       ELSE SyntaxError

\* A faulty variant of ScanEnd, for testing C26_WellFormed: a backslash
\* does not escape the character after it.
RECURSIVE ScanEndIgnoringEscapes(_, _, _, _, _, _)
ScanEndIgnoringEscapes(s, i, braceCount, bracketCount, inString, escapeNext) ==
    IF i > Len(s) THEN 0
    ELSE IF s[i] = Quote
    THEN ScanEndIgnoringEscapes(s, i + 1, braceCount, bracketCount,
                                ~inString, FALSE)
    ELSE IF inString
    THEN ScanEndIgnoringEscapes(s, i + 1, braceCount, bracketCount,
                                inString, FALSE)
    ELSE LET braces == braceCount + (IF s[i] = "{" THEN 1 ELSE 0)
                                  - (IF s[i] = "}" THEN 1 ELSE 0)
             brackets == bracketCount + (IF s[i] = "[" THEN 1 ELSE 0)
                                      - (IF s[i] = "]" THEN 1 ELSE 0)
         IN IF braces = 0 /\ brackets = 0 /\ s[i] \in {"}", "]"}
            THEN i + 1
            ELSE ScanEndIgnoringEscapes(s, i + 1, braces, brackets,
                                        inString, FALSE)

\* The inner for loop of the stream scan: the index after the first '}' or
\* ']' from index i on at which, outside strings, all braces and brackets
\* are closed; 0 when there is none.
RECURSIVE ScanEnd(_, _, _, _, _, _)
ScanEnd(s, i, braceCount, bracketCount, inString, escapeNext) ==
    IF i > Len(s) THEN 0
    ELSE IF escapeNext
    THEN ScanEnd(s, i + 1, braceCount, bracketCount, inString, FALSE)
    ELSE IF s[i] = Backslash
    THEN ScanEnd(s, i + 1, braceCount, bracketCount, inString, TRUE)
    ELSE IF s[i] = Quote
    THEN ScanEnd(s, i + 1, braceCount, bracketCount, ~inString, FALSE)
    ELSE IF inString
    THEN ScanEnd(s, i + 1, braceCount, bracketCount, inString, FALSE)
    ELSE LET braces == braceCount + (IF s[i] = "{" THEN 1 ELSE 0)
                                  - (IF s[i] = "}" THEN 1 ELSE 0)
             brackets == bracketCount + (IF s[i] = "[" THEN 1 ELSE 0)
                                      - (IF s[i] = "]" THEN 1 ELSE 0)
         IN IF braces = 0 /\ brackets = 0 /\ s[i] \in {"}", "]"}
            THEN i + 1
            ELSE ScanEnd(s, i + 1, braces, brackets, inString, FALSE)

\* remainingContent.indexOf(c, from), as an index from 1; 0 when absent.
RECURSIVE IndexOf(_, _, _)
IndexOf(s, c, from) ==
    IF from > Len(s) THEN 0
    ELSE IF s[from] = c THEN from
    ELSE IndexOf(s, c, from + 1)

\* The next '{' or '[' after the position at which an object failed to
\* parse; 0 when there is none.
NextStart(s, position) ==
    LET nextBrace == IndexOf(s, "{", position + 1)
        nextBracket == IndexOf(s, "[", position + 1)
    IN IF nextBrace = 0 THEN nextBracket
       ELSE IF nextBracket = 0 THEN nextBrace
       ELSE IF nextBrace < nextBracket THEN nextBrace ELSE nextBracket

\* A faulty variant of StreamObjects, for testing C15_Concatenated: the scan
\* stops after the first object.
StreamFirstObjectOnly(s, from, streamObjects) ==
    LET position == SkipSpace(s, from)
        endPos == ScanEnd(s, position, 0, 0, FALSE, FALSE)
        obj == JSONParse(SubSeq(s, position, endPos - 1))
    IN IF position <= Len(s) /\ endPos # 0 /\ obj.ok
       THEN Append(streamObjects, obj.value)
       ELSE streamObjects

\* The while loop of the stream scan over the trimmed content, from a
\* position on: the objects it pushes.
RECURSIVE StreamObjects(_, _, _)
StreamObjects(s, from, streamObjects) ==
    LET position == SkipSpace(s, from)
        endPos == ScanEnd(s, position, 0, 0, FALSE, FALSE)
        obj == JSONParse(SubSeq(s, position, endPos - 1))
        nextStart == NextStart(s, position)
    IN IF position > Len(s) \/ endPos = 0 THEN streamObjects
       ELSE IF obj.ok
       THEN StreamObjects(s, endPos, Append(streamObjects, obj.value))
       ELSE IF nextStart # 0
       THEN StreamObjects(s, nextStart, streamObjects)
       ELSE streamObjects

\* content.trim().split('\n')
RECURSIVE SplitLines(_)
SplitLines(s) ==
    LET n == IndexOf(s, Newline, 1)
    IN IF n = 0 THEN <<s>>
       ELSE <<SubSeq(s, 1, n - 1)>> \o SplitLines(SubSeq(s, n + 1, Len(s)))

\* The last resort: the lines that parse on their own.
RECURSIVE LineObjects(_)
LineObjects(lines) ==
    IF lines = <<>> THEN <<>>
    ELSE LET lineObj == JSONParse(Trim(Head(lines)))
         IN (IF lineObj.ok THEN <<lineObj.value>> ELSE <<>>)
               \o LineObjects(Tail(lines))

\* What the body of the per-file try block makes of a .json file: the
\* objects to push, or the error it throws.
DecodeJson(content) ==
    LET single == JSONParse(content)
        stream == StreamObjects(Trim(content), 1, <<>>)
        lines == LineObjects(SplitLines(Trim(content)))
    IN IF single.ok
       THEN [ok |-> TRUE,
             objects |-> IF single.value.type = "array"
                         THEN single.value.elements ELSE <<single.value>>]
       ELSE IF stream # <<>> THEN [ok |-> TRUE, objects |-> stream]
       ELSE IF lines # <<>> THEN [ok |-> TRUE, objects |-> lines]
       ELSE [ok |-> FALSE, objects |-> <<>>]

\* yaml.load on a YAML file whose content is in JSON (flow) syntax: one
\* document gives its value, anything else throws.
DecodeYaml(content) ==
    LET single == JSONParse(content)
    IN IF single.ok
       THEN [ok |-> TRUE,
             objects |-> IF single.value.type = "array"
                         THEN single.value.elements ELSE <<single.value>>]
       ELSE [ok |-> FALSE, objects |-> <<>>]

DecodeFile(file) ==
    IF file.json THEN DecodeJson(file.content) ELSE DecodeYaml(file.content)

\* allFiles = [...jsonFiles, ...yamlFiles, ...ymlFiles]
AllFiles(files) ==
    SelectSeq(files, LAMBDA f : f.json) \o SelectSeq(files, LAMBDA f : ~f.json)

\* A faulty variant of DecodeFiles, for testing C17_UnparsableSkipped: the
\* first file that cannot be decoded ends the loop.
DecodeFilesUntilError(allFiles, parsedObjects, warnings) ==
    LET failed == {i \in 1..Len(allFiles) : ~DecodeFile(allFiles[i]).ok}
        n == IF failed = {} THEN Len(allFiles)
             ELSE (CHOOSE i \in failed : \A j \in failed : i <= j) - 1
    IN [ok |-> TRUE,
        parsedObjects |->
            IF n = 0 THEN <<>>
            ELSE IF n = 1 THEN DecodeFile(allFiles[1]).objects
            ELSE DecodeFile(allFiles[1]).objects
                    \o DecodeFile(allFiles[2]).objects,
        warnings |-> IF failed = {} THEN <<>> ELSE <<allFiles[n + 1].name>>]

\* The for loop over allFiles: the objects pushed and the files for which
\* console.warn was called, by name.
RECURSIVE DecodeFiles(_, _, _)
DecodeFiles(allFiles, parsedObjects, warnings) ==
    IF allFiles = <<>>
    THEN [ok |-> TRUE, parsedObjects |-> parsedObjects, warnings |-> warnings]
    ELSE LET parsed == DecodeFile(Head(allFiles))
         IN IF parsed.ok
            THEN DecodeFiles(Tail(allFiles),
                             parsedObjects \o parsed.objects, warnings)
            ELSE DecodeFiles(Tail(allFiles), parsedObjects,
                             Append(warnings, Head(allFiles).name))

parseFBCDirectory(files) ==
    IF AllFiles(files) = <<>>
    THEN [ok |-> FALSE, parsedObjects |-> <<>>, warnings |-> <<>>]
    ELSE DecodeFiles(AllFiles(files), <<>>, <<>>)

----------------------------------------------------------------------------
(* The state of the decoder's stream scan and of the page's other parts    *)
(* before anything has run.  The page's markup is not among the sources:   *)
(* a select starts on its empty placeholder option and a control starts in *)
(* the state that its update function computes for empty selections.       *)

TabCatalogs == {"redhat-operator-index", "certified-operator-index"}
TabVersions == {"v4.14", "v4.15"}

CacheKeys == TabCatalogs \X TabVersions

\* window.location before the View Details button has navigated.
NotNavigated == [catalog |-> NULL, version |-> NULL, operator |-> NULL]

\* No generate request has been sent from the Create tab.
NotGenerated == [catalog |-> NULL, version |-> NULL, selections |-> <<>>]

NotWaiting == [stage |-> "none"]

StreamIdle ==
    /\ loopContent = <<>>
    /\ loopPosition = 1
    /\ loopObjects = <<>>
    /\ loopState = "idle"

\* The Create tab at page load (let selectedOperators = [] and the four
\* current... variables at null).  currentOperatorChannels is written
\* <<>> while it is null: the code reads it only to find a channel by
\* name, which neither null nor an empty list offers.
CreateLoaded ==
    /\ createTab = [catalogSelect |-> "", versionSelect |-> "",
                    fetchDisabled |-> TRUE,
                    operatorOptions |-> <<>>, operatorSelect |-> "",
                    operatorDisabled |-> TRUE,
                    channelOptions |-> <<>>, channelSelect |-> "",
                    channelDisabled |-> TRUE,
                    versionOptions |-> <<>>, versionSelectOperator |-> "",
                    versionDisabled |-> TRUE,
                    addDisabled |-> TRUE, generateDisabled |-> TRUE,
                    selectedOperators |-> <<>>,
                    currentConfigCatalog |-> NULL,
                    currentConfigVersion |-> NULL,
                    currentOperatorChannels |-> <<>>,
                    currentOperatorDefaultChannel |-> NULL]
    /\ createCalls = [k \in 1..MaxCalls |-> NotWaiting]
    /\ createReq = NotGenerated

\* The Fetch tab at page load with an empty sessionStorage: nothing is
\* restored and updateFetchButtonState disables the Fetch button.
FetchLoaded ==
    /\ fetchTab = [catalogSelect |-> "", versionSelect |-> "",
                   fetchDisabled |-> TRUE,
                   operatorOptions |-> <<>>, operatorSelect |-> "",
                   operatorDisabled |-> TRUE,
                   viewDetailsDisabled |-> TRUE,
                   operatorsCache |-> [key \in CacheKeys |-> NULL],
                   cachedCatalog |-> NULL, cachedVersion |-> NULL]
    /\ fetchCalls = [k \in 1..MaxCalls |-> NotWaiting]
    /\ navigation = NotNavigated

\* The log panel at page load: the one entry of the markup, whose time
\* the page sets.  Entries are named by the call of addLogEntry that made
\* them; the markup's entry is entry 0.
LogsLoaded ==
    /\ logsContent = <<0>>
    /\ logCalls = 0

TabsIdle == CreateLoaded /\ FetchLoaded /\ LogsLoaded

----------------------------------------------------------------------------
(* Inputs                                                                  *)

\* A selection as the Create tab's Add button builds it:
\* defaultChannelVersion is only set together with defaultChannel, and only
\* when the default channel has versions.
Selections ==
    {s \in [operator : Ops, channel : Chan, version : Ver,
            defaultChannel : Chan \cup {NULL},
            defaultChannelVersion : {"v3", NULL}] :
        s.defaultChannelVersion # NULL => s.defaultChannel # NULL}

\* Catalog names of a generate request, and its catalog versions: none, an
\* ordinary one and one that is a ':'.
Strings == SeqsUpTo(Chars, MaxStrLen)

VersionStrings == {<<>>, <<"a">>, <<":">>}

\* A channel constraint of an uploaded document.  The first one may be a
\* legacy entry (maxVersion with or without minVersion); the later ones are
\* as the reconciler writes them.
Constraints ==
    {c \in [name : Chan, minVersion : {"v1", NULL}, maxVersion : {"v9", NULL}] :
        c.minVersion # NULL \/ c.maxVersion # NULL}

ChannelLists ==
    {s \in SeqsUpTo(Constraints, MaxCons) :
        \A i \in 2..Len(s) : s[i].minVersion # NULL /\ s[i].maxVersion = NULL}

\* The first package entry of an uploaded document is arbitrary; the entries
\* after it are plain ones, of the same or of another operator.
RichPackages ==
    [name : {"foo"}, channels : ChannelLists,
     defaultChannel : Markers \cup {NULL}]

PlainPackages ==
    [name : Ops,
     channels : {<<[name |-> "stable", minVersion |-> "v1",
                    maxVersion |-> NULL]>>},
     defaultChannel : {NULL}]

PackageLists ==
    {<<>>} \cup
    {<<p>> \o rest : p \in RichPackages,
                     rest \in SeqsUpTo(PlainPackages, MaxPkgs - 1)}

DocImage == ImageName(<<"a">>, <<"a">>)

Document(kind, operators) ==
    [apiVersion |-> "mirror.openshift.io/v2alpha1",
     kind |-> kind,
     mirror |-> [operators |-> operators]]

PlainDocument(kind) ==
    Document(kind,
             <<[catalog |-> DocImage,
                packages |-> <<[name |-> "foo",
                                channels |-> <<[name |-> "stable",
                                                minVersion |-> "v1",
                                                maxVersion |-> NULL]>>,
                                defaultChannel |-> NULL]>>]>>)

Documents ==
    {Document("ImageSetConfiguration",
              <<[catalog |-> DocImage, packages |-> pkgs]>>) :
        pkgs \in PackageLists}
    \cup {Document("ImageSetConfiguration", <<>>), PlainDocument("Deployment")}

\* Package entries without a channels property, which oc-mirror accepts and
\* which yaml.load returns without the key.
BarePackages == [name : Ops, defaultChannel : Markers \cup {NULL}]

\* The documents of a direct update request: those above, and documents
\* with a package entry without channels, alone or next to another entry.
ApiDocuments ==
    Documents \cup
    {Document("ImageSetConfiguration",
              <<[catalog |-> DocImage, packages |-> pkgs]>>) :
        pkgs \in {<<b>> : b \in BarePackages}
                 \cup {<<b, p>> : b \in BarePackages, p \in PlainPackages}
                 \cup {<<p, b>> : p \in PlainPackages, b \in BarePackages}}

\* The graphs extractChannelsAndVersions can return: channels with distinct
\* names, each with its versions in descending order without duplicates,
\* and the package's default channel or, without one, the first channel.
VersionLists == {<<>>, <<"v1">>, <<"v2", "v1">>}

GraphChannelLists ==
    {s \in SeqsUpTo([name : Chan, versions : VersionLists], MaxGraphChannels) :
        \A i, j \in 1..Len(s) : i # j => s[i].name # s[j].name}

Graph(packageDefault, channels) ==
    [found |-> TRUE, parsed |-> TRUE,
     defaultChannel |-> IF packageDefault # NULL THEN packageDefault
                        ELSE IF Len(channels) > 0 THEN channels[1].name
                        ELSE NULL,
     channels |-> channels]

Graphs == {Graph(d, cs) : d \in Chan \cup {NULL}, cs \in GraphChannelLists}

PlainGraph ==
    Graph(NULL, <<[name |-> "stable", versions |-> <<"v2", "v1">>]>>)

\* The catalog: any graph for the operator of the first package entry, a
\* plain one (or none) for the other operator.
Catalogs ==
    {[o \in Ops |-> IF o = "foo" THEN g ELSE h] :
        g \in Graphs \cup {NotFound, Unparsable},
        h \in {PlainGraph, NotFound}}

UpdateEntries ==
    [name : Ops, channel : Chan, newVersion : {"v2"},
     originalChannel : Chan \cup {NULL}]

DefaultAddEntries == [operator : Ops, channel : Chan, version : {"v5"}]

DefaultParamEntries == [operator : Ops, defaultChannel : Chan]

----------------------------------------------------------------------------
(* Specifications                                                          *)

NoFile == [kind |-> NULL]
NoParsed == [ok |-> FALSE]

synthVars == <<genReq, genRes, parseRes>>
apiVars == <<apiReq, apiRes>>
envVars == <<catalogFs, configFile>>
pageVars == <<originalConfigContent, parsedConfig, currentVersionInfo,
              versionUpdates, channelReplacements, defaultChannelAdditions,
              defaultChannelReplacements, items, updateButtonDisabled>>
callVars == <<confirmShown, updateReq, updateRes>>
fbcVars == <<dirFiles, dirResult, graphObjects, graphResult, scanText,
             scanEnd>>
asyncVars == <<uploadCalls, selectCall, rendering, comparedFile>>
serverVars == <<requests, cache, containers>>
streamVars == <<loopContent, loopPosition, loopObjects, loopState>>
createVars == <<createTab, createCalls, createReq>>
fetchVars == <<fetchTab, fetchCalls, navigation>>
logVars == <<logsContent, logCalls>>
tabVars == <<createVars, fetchVars, logVars>>
vars == <<synthVars, apiVars, envVars, pageVars, callVars, fbcVars,
          asyncVars, serverVars, streamVars, tabVars>>

SynthIdle == genReq = Idle /\ genRes = NoResponse /\ parseRes = NoResponse

ApiIdle == apiReq = Idle /\ apiRes = NoResponse

\* The page as the script leaves it when it is loaded.
PageLoaded ==
    /\ originalConfigContent = NoFile
    /\ parsedConfig = NoParsed
    /\ currentVersionInfo = <<>>
    /\ versionUpdates = <<>>
    /\ channelReplacements = <<>>
    /\ defaultChannelAdditions = <<>>
    /\ defaultChannelReplacements = <<>>
    /\ items = <<>>
    /\ updateButtonDisabled = FALSE
    /\ confirmShown = <<>>
    /\ updateReq = Idle
    /\ updateRes = NoResponse

PageIdle == catalogFs = Idle /\ configFile = Idle /\ PageLoaded

NoDirectory == [read |-> FALSE]
NoGraph == [built |-> FALSE]

NotScanned == 0 - 1

ScanIdle == scanText = <<>> /\ scanEnd = NotScanned

FbcIdle ==
    /\ dirFiles = <<>>
    /\ dirResult = NoDirectory
    /\ graphObjects = <<>>
    /\ graphResult = NoGraph
    /\ ScanIdle

\* No 'change' handler of the page is awaiting anything.
NoCall == [stage |-> "none"]

AsyncIdle ==
    /\ uploadCalls = [k \in 1..MaxUploads |-> NoCall]
    /\ selectCall = NoCall
    /\ rendering = 0
    /\ comparedFile = NoFile

\* The server has no catalog request, no cache directory and no container.
ServerIdle ==
    /\ requests = [r \in 1..MaxRequests |-> NoCall]
    /\ cache = "absent"
    /\ containers = {}

(* The Create tab's two endpoints, on every request. *)

InitSynth ==
    /\ genReq \in [catalog : Strings, version : VersionStrings,
                   selections : SeqsUpTo(Selections, MaxSel)]
    /\ genRes = NoResponse
    /\ parseRes = NoResponse
    /\ ApiIdle
    /\ PageIdle
    /\ FbcIdle
    /\ AsyncIdle
    /\ StreamIdle
    /\ TabsIdle
    /\ ServerIdle

Generate ==
    /\ genRes = NoResponse
    /\ genRes' = GenerateEndpoint(genReq)
    /\ UNCHANGED <<genReq, parseRes, apiVars, envVars, fbcVars, asyncVars, serverVars, streamVars, tabVars, pageVars, callVars>>

ParseGenerated ==
    /\ genRes.status = 200
    /\ parseRes = NoResponse
    /\ parseRes' = ParseEndpoint(genRes.yaml)
    /\ UNCHANGED <<genReq, genRes, apiVars, envVars, fbcVars, asyncVars, serverVars, streamVars, tabVars, pageVars, callVars>>

NextSynth == Generate \/ ParseGenerated

SpecSynth == InitSynth /\ [][NextSynth]_vars

(* The update endpoint, called directly with any request. *)

InitApi ==
    /\ \E nu \in 0..MaxReq :
       \E nr \in 0..(MaxReq - nu) :
       \E na \in 0..(MaxReq - nu - nr) :
       \E np \in 0..(MaxReq - nu - nr - na) :
          apiReq \in [originalConfig : ApiDocuments,
                      updates : [1..nu -> UpdateEntries],
                      removeOperators : [1..nr -> Ops],
                      addDefaultChannels : [1..na -> DefaultAddEntries],
                      replaceWithDefaultChannels : {<<>>},
                      setDefaultChannelParam : [1..np -> DefaultParamEntries]]
    /\ apiRes = NoResponse
    /\ SynthIdle
    /\ PageIdle
    /\ FbcIdle
    /\ AsyncIdle
    /\ StreamIdle
    /\ TabsIdle
    /\ ServerIdle

PostUpdate ==
    /\ apiRes = NoResponse
    /\ apiRes' = UpdateEndpoint(apiReq)
    /\ UNCHANGED <<apiReq, synthVars, envVars, fbcVars, asyncVars, serverVars, streamVars, tabVars, pageVars, callVars>>

NextApi == PostUpdate

SpecApi == InitApi /\ [][NextApi]_vars

(* The Update tab: a file is uploaded, the user edits the choices, and the  *)
(* page is followed until its first update response.                       *)

\* The catalog holds the second operator only when the file names it.
Init ==
    /\ configFile \in Documents
    /\ catalogFs \in Catalogs
    /\ catalogFs["bar"].found =>
          \E p \in Range(AllPackages(configFile.mirror.operators)) :
             p.name = "bar"
    /\ PageLoaded
    /\ SynthIdle
    /\ ApiIdle
    /\ FbcIdle
    /\ AsyncIdle
    /\ StreamIdle
    /\ TabsIdle
    /\ ServerIdle

\* What the configFileInput 'change' handler leaves on the page for a file:
\* the parse, the version comparison, displayVersionComparison and
\* checkChannelReplacementsComplete.
UploadOutcome(fs, file) ==
    LET parse == ParseEndpoint(file)
    IN IF parse.status # 200
       THEN [parsed |-> FALSE, compared |-> FALSE, data |-> NoParsed,
             versionInfo |-> <<>>]
       ELSE LET versions ==
                    GetLatestVersions(fs,
                        [catalog |-> parse.parsed.catalog,
                         version |-> parse.parsed.version,
                         packages |-> parse.parsed.packages])
            IN [parsed |-> TRUE, compared |-> versions.status = 200,
                data |-> parse.parsed,
                versionInfo |-> versions.versionInfo]

\* configFileInput 'change'.
Upload ==
    /\ updateRes = NoResponse
    /\ originalConfigContent' = configFile
    /\ \E out \in {UploadOutcome(catalogFs, configFile)} :
          /\ parsedConfig' = IF out.parsed THEN out.data ELSE parsedConfig
          /\ IF out.compared
             THEN /\ currentVersionInfo' = out.versionInfo
                  /\ versionUpdates' = <<>>
                  /\ channelReplacements' = <<>>
                  /\ defaultChannelAdditions' =
                         PresetAdditions(out.versionInfo)
                  /\ defaultChannelReplacements' = <<>>
                  /\ items' = [i \in 1..Len(out.versionInfo) |->
                                  RenderItem(out.versionInfo[i])]
                  /\ updateButtonDisabled' =
                         ReplacementsIncomplete(out.versionInfo, <<>>)
             ELSE UNCHANGED <<currentVersionInfo, versionUpdates,
                              channelReplacements, defaultChannelAdditions,
                              defaultChannelReplacements, items,
                              updateButtonDisabled>>
    /\ UNCHANGED <<synthVars, apiVars, envVars, fbcVars, asyncVars, serverVars, streamVars, tabVars, callVars>>

\* An update checkbox 'change'.
ToggleCheckbox ==
    /\ updateRes = NoResponse
    /\ \E i \in 1..Len(items) :
          /\ items[i].checkbox.present
          /\ LET box == items[i].checkbox
             IN /\ items' = [items EXCEPT ![i].checkbox.checked = ~box.checked]
                /\ versionUpdates' =
                       CheckboxChanged(versionUpdates, box, ~box.checked)
    /\ UNCHANGED <<synthVars, apiVars, envVars, fbcVars, asyncVars, serverVars, streamVars, tabVars, callVars,
                   originalConfigContent, parsedConfig, currentVersionInfo,
                   channelReplacements, defaultChannelAdditions,
                   defaultChannelReplacements, updateButtonDisabled>>

\* A channel-replacement select 'change' to a non-empty option whose
\* channel, as /api/operator-details reports it, has versions.
SelectReplacement ==
    /\ updateRes = NoResponse
    /\ \E i \in 1..Len(items) :
       \E newChannel \in Range(items[i].select.options) :
          LET select == items[i].select
              latestVersion == LatestOf(catalogFs[select.operator], newChannel)
          IN /\ select.present
             /\ catalogFs[select.operator].found
             /\ latestVersion # NULL
             /\ items' = [items EXCEPT
                    ![i].checkbox =
                        [present |-> TRUE, name |-> select.operator,
                         channel |-> newChannel, version |-> latestVersion,
                         originalChannel |-> select.originalChannel,
                         checked |-> FALSE],
                    ![i].select.present = FALSE]
             /\ channelReplacements' =
                    MapSet(channelReplacements,
                           [operator |-> select.operator,
                            channel |-> newChannel])
             /\ updateButtonDisabled' =
                    ReplacementsIncomplete(currentVersionInfo,
                                           channelReplacements')
    /\ UNCHANGED <<synthVars, apiVars, envVars, fbcVars, asyncVars, serverVars, streamVars, tabVars, callVars,
                   originalConfigContent, parsedConfig, currentVersionInfo,
                   versionUpdates, defaultChannelAdditions,
                   defaultChannelReplacements>>

\* A default-channel-action radio 'change' (Add, Replace or None).
SelectRadio ==
    /\ updateRes = NoResponse
    /\ \E i \in 1..Len(items) :
       \E action \in {"add", "replace", "none"} :
          LET radio == items[i].radios
              entry == [operator |-> radio.operator,
                        channel |-> radio.channel,
                        version |-> radio.version]
          IN /\ radio.present
             /\ defaultChannelAdditions' =
                    IF action = "add"
                    THEN MapSet(defaultChannelAdditions, entry)
                    ELSE MapDelete(defaultChannelAdditions, radio.operator)
             /\ defaultChannelReplacements' =
                    IF action = "replace"
                    THEN MapSet(defaultChannelReplacements, entry)
                    ELSE MapDelete(defaultChannelReplacements, radio.operator)
    /\ UNCHANGED <<synthVars, apiVars, envVars, fbcVars, asyncVars, serverVars, streamVars, tabVars, callVars,
                   originalConfigContent, parsedConfig, currentVersionInfo,
                   versionUpdates, channelReplacements, items,
                   updateButtonDisabled>>

\* The Select All button.
SelectAll ==
    /\ updateRes = NoResponse
    /\ items' = [i \in 1..Len(items) |->
                    IF items[i].checkbox.present
                    THEN [items[i] EXCEPT !.checkbox.checked = TRUE]
                    ELSE items[i]]
    /\ versionUpdates' = SelectAllUpdates(items)
    /\ UNCHANGED <<synthVars, apiVars, envVars, fbcVars, asyncVars, serverVars, streamVars, tabVars, callVars,
                   originalConfigContent, parsedConfig, currentVersionInfo,
                   channelReplacements, defaultChannelAdditions,
                   defaultChannelReplacements, updateButtonDisabled>>

\* The Update button: confirm() when operators are missing, then the request.
ClickUpdate ==
    /\ updateRes = NoResponse
    /\ ~updateButtonDisabled
    /\ LET missing == MissingOperators(currentVersionInfo)
           body == UpdateBody(originalConfigContent, versionUpdates,
                              currentVersionInfo, defaultChannelAdditions,
                              defaultChannelReplacements)
       IN \E confirmed \in BOOLEAN :
             /\ Len(missing) = 0 => confirmed
             /\ confirmShown' = IF Len(missing) > 0 THEN missing
                                ELSE confirmShown
             /\ IF confirmed /\ ~(Len(versionUpdates) = 0 /\ Len(missing) = 0)
                THEN /\ updateReq' = body
                     /\ updateRes' = UpdateEndpoint(body)
                ELSE UNCHANGED <<updateReq, updateRes>>
    /\ UNCHANGED <<synthVars, apiVars, envVars, fbcVars, asyncVars, serverVars, streamVars, tabVars, pageVars>>

Next ==
    \/ Upload
    \/ ToggleCheckbox
    \/ SelectReplacement
    \/ SelectRadio
    \/ SelectAll
    \/ ClickUpdate

Spec == Init /\ [][Next]_vars


(* The Graph Builder, on every list of parsed objects. *)

\* olm.package objects, with and without a defaultChannel.
PackageObjects ==
    [schema : {"olm.package"}, defaultChannel : {"stable", "fast", NULL}]

BundleV2 == <<"v", "2">>
BundleV3 == <<"v", "3">>

\* olm.channel objects: entries that name a bundle once or twice, in either
\* order, and one object without a name.
ChannelObjects ==
    [schema : {"olm.channel"}, name : {"stable"},
     entries : {<<BundleV2>>, <<BundleV2, BundleV3>>, <<BundleV3, BundleV2>>}]
    \cup
    [schema : {"olm.channel"}, name : {"fast"},
     entries : {<<>>, <<BundleV3>>, <<BundleV2, BundleV3>>,
                <<BundleV2, BundleV2>>}]
    \cup
    [schema : {"olm.channel"}, name : {NULL}, entries : {<<BundleV2>>}]

\* olm.bundle objects, with the version of their olm.package property or
\* without one: versions that order differently by value and by text
\* ("10", "2"), that differ by case only ("2a", "2A"), or that coincide.
BundleObjects ==
    [schema : {"olm.bundle"}, name : {BundleV2},
     version : {<<>>, <<"2">>, <<"2", "a">>}]
    \cup
    [schema : {"olm.bundle"}, name : {BundleV3},
     version : {<<>>, <<"2">>, <<"1", "0">>, <<"2", "A">>}]

CatalogObjects == PackageObjects \cup ChannelObjects \cup BundleObjects

InitGraph ==
    /\ \E n \in 0..MaxObjects : graphObjects \in [1..n -> CatalogObjects]
    /\ graphResult = NoGraph
    /\ dirFiles = <<>>
    /\ dirResult = NoDirectory
    /\ SynthIdle
    /\ ApiIdle
    /\ PageIdle
    /\ AsyncIdle
    /\ StreamIdle
    /\ TabsIdle
    /\ ScanIdle
    /\ ServerIdle

BuildGraph ==
    /\ graphResult = NoGraph
    /\ graphResult' = extractChannelsAndVersions(graphObjects)
    /\ UNCHANGED <<graphObjects, dirFiles, dirResult, scanText, scanEnd,
                   synthVars, apiVars, asyncVars, serverVars, streamVars, tabVars,
                   envVars, pageVars, callVars>>

NextGraph == BuildGraph

SpecGraph == InitGraph /\ [][NextGraph]_vars

(* The Decoder, on every operator directory. *)

\* The texts of two catalog objects; the second has a brace, an escaped
\* quote and a bracket inside a string.
ObjectA == <<"{", Quote, "a", Quote, ":", "1", "}">>

ObjectB ==
    <<"{", Quote, "}", Backslash, Quote, "[", Quote, ":", "[", "2", "]", "}">>

\* Texts that are not JSON: a word, a braced word, a lone closing bracket.
GarbageWord == <<"g">>
GarbageBraced == <<"{", "g", "}">>
GarbageBracket == <<"]">>

Pieces == {ObjectA, ObjectB, GarbageWord, GarbageBraced, GarbageBracket}

Separators == {<<>>, <<Newline>>}

\* The content of a .json file: nothing, one piece, two pieces with or
\* without a newline between them, or an array of the two objects.
JsonContents ==
    {<<>>} \cup Pieces
    \cup {p \o sep \o q : p \in Pieces, sep \in Separators, q \in Pieces}
    \cup {<<"[">> \o ObjectA \o <<",", " ">> \o ObjectB \o <<"]", Newline>>}

\* The content of a YAML file: one object, or two without a separator.
YamlContents == {ObjectA, ObjectA \o ObjectB}

\* The files of an operator directory, named by their place in the listing.
DirectoryFiles(n) ==
    {files \in [1..n -> [name : 1..n, json : BOOLEAN,
                         content : JsonContents]] :
        \A i \in 1..n :
            /\ files[i].name = i
            /\ ~files[i].json => files[i].content \in YamlContents}

InitDecode ==
    /\ \E n \in 0..MaxFiles : dirFiles \in DirectoryFiles(n)
    /\ dirResult = NoDirectory
    /\ graphObjects = <<>>
    /\ graphResult = NoGraph
    /\ SynthIdle
    /\ ApiIdle
    /\ PageIdle
    /\ AsyncIdle
    /\ StreamIdle
    /\ TabsIdle
    /\ ScanIdle
    /\ ServerIdle

ReadDirectory ==
    /\ dirResult = NoDirectory
    /\ dirResult' = parseFBCDirectory(dirFiles)
    /\ UNCHANGED <<dirFiles, graphObjects, graphResult, scanText, scanEnd,
                   synthVars, apiVars, asyncVars, serverVars, streamVars, tabVars,
                   envVars, pageVars, callVars>>

NextDecode == ReadDirectory

SpecDecode == InitDecode /\ [][NextDecode]_vars

(* The brace scan of the stream decoder, on every text. *)

\* The characters of the texts: braces, brackets, the quote, the backslash
\* and a plain character.
ScanChars == {"{", "}", "[", "]", Quote, Backslash, "a"}

InitScan ==
    /\ \E n \in 0..MaxScanLen : scanText \in [1..n -> ScanChars]
    /\ scanEnd = NotScanned
    /\ dirFiles = <<>>
    /\ dirResult = NoDirectory
    /\ graphObjects = <<>>
    /\ graphResult = NoGraph
    /\ SynthIdle
    /\ ApiIdle
    /\ PageIdle
    /\ AsyncIdle
    /\ StreamIdle
    /\ TabsIdle
    /\ ServerIdle

\* The inner for loop, from the start of the text with all counters at
\* zero.
ScanCandidate ==
    /\ scanEnd = NotScanned
    /\ scanEnd' = ScanEnd(scanText, 1, 0, 0, FALSE, FALSE)
    /\ UNCHANGED <<scanText, dirFiles, dirResult, graphObjects, graphResult,
                   synthVars, apiVars, asyncVars, serverVars, streamVars, tabVars, envVars,
                   pageVars, callVars>>

NextScan == ScanCandidate

SpecScan == InitScan /\ [][NextScan]_vars

(* The Update tab with its handlers followed await by await: several files *)
(* are picked one after another, and the responses to their requests and   *)
(* to the request of a channel replacement arrive in any order.            *)

FileOf(image, name, channel) ==
    Document("ImageSetConfiguration",
             <<[catalog |-> image,
                packages |-> <<[name |-> name,
                                channels |-> <<[name |-> channel,
                                                minVersion |-> "v1",
                                                maxVersion |-> NULL]>>,
                                defaultChannel |-> NULL]>>]>>)

FileFoo == FileOf(DocImage, "foo", "stable")

FileBoth ==
    Document("ImageSetConfiguration",
             <<[catalog |-> DocImage,
                packages |-> FileFoo.mirror.operators[1].packages
                             \o FileOf(DocImage, "bar", "stable")
                                    .mirror.operators[1].packages]>>)

\* A file that is no ImageSetConfiguration: its parse request fails.
FileDeployment == PlainDocument("Deployment")

\* A file whose catalog image the parser's pattern does not match: it is
\* parsed, with an empty catalog and version, and its version request is
\* refused.
FileOtherRegistry == FileOf(<<"q">>, "foo", "beta")

AsyncFiles == {FileFoo, FileBoth, FileDeployment, FileOtherRegistry}

TwoChannels ==
    Graph("beta", <<[name |-> "stable", versions |-> <<"v2", "v1">>],
                    [name |-> "beta", versions |-> <<"v2", "v1">>]>>)

BetaOnly == Graph(NULL, <<[name |-> "beta", versions |-> <<"v2", "v1">>]>>)

AsyncCatalogs ==
    {[o \in Ops |-> IF o = "foo" THEN g ELSE h] :
        g \in {TwoChannels, BetaOnly}, h \in {PlainGraph, BetaOnly}}

InitAsync ==
    /\ catalogFs \in AsyncCatalogs
    /\ configFile = Idle
    /\ PageLoaded
    /\ AsyncIdle
    /\ StreamIdle
    /\ TabsIdle
    /\ SynthIdle
    /\ ApiIdle
    /\ FbcIdle
    /\ ServerIdle

\* configFileInput 'change': the handler starts and awaits file.text().
ChooseFile ==
    /\ updateRes = NoResponse
    /\ \E k \in 1..MaxUploads :
       \E file \in AsyncFiles :
          /\ uploadCalls[k].stage = "none"
          /\ \A j \in 1..(k - 1) : uploadCalls[j].stage # "none"
          /\ uploadCalls' = [uploadCalls EXCEPT
                                ![k] = [stage |-> "text", file |-> file,
                                        data |-> NoParsed]]
    /\ UNCHANGED <<synthVars, apiVars, envVars, fbcVars, serverVars, streamVars, tabVars, pageVars,
                   callVars, selectCall, rendering, comparedFile>>

\* file.text() resolves: originalConfigContent is assigned and the parse
\* request is sent.
FileRead ==
    /\ updateRes = NoResponse
    /\ \E k \in 1..MaxUploads :
          /\ uploadCalls[k].stage = "text"
          /\ originalConfigContent' = uploadCalls[k].file
          /\ uploadCalls' = [uploadCalls EXCEPT ![k].stage = "parse"]
    /\ UNCHANGED <<synthVars, apiVars, envVars, fbcVars, serverVars, streamVars, tabVars, callVars,
                   parsedConfig, currentVersionInfo, versionUpdates,
                   channelReplacements, defaultChannelAdditions,
                   defaultChannelReplacements, items, updateButtonDisabled,
                   selectCall, rendering, comparedFile>>

\* The parse response arrives: on an error the handler ends in its catch,
\* otherwise parsedConfig is assigned and the version request is sent.
ParseAnswered ==
    /\ updateRes = NoResponse
    /\ \E k \in 1..MaxUploads :
          /\ uploadCalls[k].stage = "parse"
          /\ LET parse == ParseEndpoint(uploadCalls[k].file)
             IN IF parse.status # 200
                THEN /\ uploadCalls' = [uploadCalls EXCEPT ![k].stage = "done"]
                     /\ UNCHANGED parsedConfig
                ELSE /\ uploadCalls' = [uploadCalls EXCEPT
                                           ![k].stage = "versions",
                                           ![k].data = parse.parsed]
                     /\ parsedConfig' = parse.parsed
    /\ UNCHANGED <<synthVars, apiVars, envVars, fbcVars, serverVars, streamVars, tabVars, callVars,
                   originalConfigContent, currentVersionInfo, versionUpdates,
                   channelReplacements, defaultChannelAdditions,
                   defaultChannelReplacements, items, updateButtonDisabled,
                   selectCall, rendering, comparedFile>>

\* The version response arrives: on an error the handler ends in its catch,
\* otherwise displayVersionComparison and checkChannelReplacementsComplete
\* run.
VersionsAnswered ==
    /\ updateRes = NoResponse
    /\ \E k \in 1..MaxUploads :
          /\ uploadCalls[k].stage = "versions"
          /\ uploadCalls' = [uploadCalls EXCEPT ![k].stage = "done"]
          /\ LET data == uploadCalls[k].data
                 versions == GetLatestVersions(catalogFs,
                                 [catalog |-> data.catalog,
                                  version |-> data.version,
                                  packages |-> data.packages])
             IN IF versions.status # 200
                THEN UNCHANGED <<currentVersionInfo, versionUpdates,
                                 channelReplacements, defaultChannelAdditions,
                                 defaultChannelReplacements, items,
                                 updateButtonDisabled, rendering, comparedFile>>
                ELSE /\ currentVersionInfo' = versions.versionInfo
                     /\ versionUpdates' = <<>>
                     /\ channelReplacements' = <<>>
                     /\ defaultChannelAdditions' =
                            PresetAdditions(versions.versionInfo)
                     /\ defaultChannelReplacements' = <<>>
                     /\ items' = [i \in 1..Len(versions.versionInfo) |->
                                     RenderItem(versions.versionInfo[i])]
                     /\ updateButtonDisabled' =
                            ReplacementsIncomplete(versions.versionInfo, <<>>)
                     /\ rendering' = rendering + 1
                     /\ comparedFile' = uploadCalls[k].file
    /\ UNCHANGED <<synthVars, apiVars, envVars, fbcVars, serverVars, streamVars, tabVars, callVars,
                   originalConfigContent, parsedConfig, selectCall>>

\* A channel-replacement select 'change' to a non-empty option: the handler
\* reads the select's data and awaits /api/operator-details.
BeginReplacement ==
    /\ updateRes = NoResponse
    /\ selectCall = NoCall
    /\ \E i \in 1..Len(items) :
       \E newChannel \in Range(items[i].select.options) :
          /\ items[i].select.present
          /\ selectCall' = [stage |-> "details", item |-> i,
                            rendering |-> rendering,
                            operator |-> items[i].select.operator,
                            originalChannel |-> items[i].select.originalChannel,
                            newChannel |-> newChannel]
    /\ UNCHANGED <<synthVars, apiVars, envVars, fbcVars, serverVars, streamVars, tabVars, pageVars,
                   callVars, uploadCalls, rendering, comparedFile>>

\* The operator's details arrive.  When the new channel has versions the
\* handler rewrites its item (an element the list may no longer hold),
\* records the replacement and runs checkChannelReplacementsComplete.
ReplacementAnswered ==
    /\ updateRes = NoResponse
    /\ selectCall # NoCall
    /\ selectCall' = NoCall
    /\ LET call == selectCall
           graph == catalogFs[call.operator]
           latestVersion == LatestOf(graph, call.newChannel)
       IN IF ~graph.found \/ ~graph.parsed \/ latestVersion = NULL
          THEN UNCHANGED <<items, channelReplacements, updateButtonDisabled>>
          ELSE /\ items' =
                     IF call.rendering = rendering
                     THEN [items EXCEPT
                             ![call.item].checkbox =
                                 [present |-> TRUE, name |-> call.operator,
                                  channel |-> call.newChannel,
                                  version |-> latestVersion,
                                  originalChannel |-> call.originalChannel,
                                  checked |-> FALSE],
                             ![call.item].select.present = FALSE]
                     ELSE items
               /\ channelReplacements' =
                      MapSet(channelReplacements,
                             [operator |-> call.operator,
                              channel |-> call.newChannel])
               /\ updateButtonDisabled' =
                      ReplacementsIncomplete(currentVersionInfo,
                                             channelReplacements')
    /\ UNCHANGED <<synthVars, apiVars, envVars, fbcVars, serverVars, streamVars, tabVars, callVars,
                   originalConfigContent, parsedConfig, currentVersionInfo,
                   versionUpdates, defaultChannelAdditions,
                   defaultChannelReplacements, uploadCalls, rendering,
                   comparedFile>>

NextAsync ==
    \/ ChooseFile
    \/ FileRead
    \/ ParseAnswered
    \/ VersionsAnswered
    \/ BeginReplacement
    \/ ReplacementAnswered
    \/ ToggleCheckbox
    \/ SelectRadio
    \/ SelectAll
    \/ ClickUpdate

SpecAsync == InitAsync /\ [][NextAsync]_vars

----------------------------------------------------------------------------
(* The catalog cache: app.post('/api/fetch-operators'),                    *)
(* app.get('/api/operator-details') and app.post('/api/get-latest-         *)
(* versions'), followed await by await while the server handles several    *)
(* requests for one catalog and version.                                   *)
(*                                                                         *)
(* cache is the state of the cache directory of that catalog and version:  *)
(* "absent", "empty" (the directory without its configs tree), "partial"   *)
(* (configs is there, not everything in it) or "full".  A container is     *)
(* named by the request that created it.                                   *)

validCatalogs ==
    {"redhat-operator-index", "certified-operator-index",
     "community-operator-index", "redhat-marketplace-index"}

Endpoints == {"fetch-operators", "operator-details", "get-latest-versions"}

\* !x for a request field: absent or the empty string.
Falsy(x) == x \in {NULL, ""}

\* The requests: the catalog is absent, empty, a catalog of the list or a
\* name that is not in it; the version is absent or given.  The other two
\* endpoints, which do not look the catalog up in the list, are called
\* with the listed catalog.
RequestBodies ==
    {b \in [endpoint : Endpoints,
            catalog : {NULL, "", "redhat-operator-index", "operator-index"},
            version : {NULL, "v4.20"}] :
        b.endpoint # "fetch-operators" =>
            b.catalog \in {NULL, "redhat-operator-index"}}

\* A faulty variant of Rejected, for testing C23_RejectedFirst: the catalog
\* is not looked up in the list.
RejectedWhenMissing(body) == Falsy(body.catalog) \/ Falsy(body.version)

\* Whether the handler answers 400 from its validation.  (The operator of
\* an operator-details request and the packages of a get-latest-versions
\* request are always given.)
Rejected(body) ==
    \/ Falsy(body.catalog)
    \/ Falsy(body.version)
    \/ /\ body.endpoint = "fetch-operators"
       /\ body.catalog \notin validCatalogs

NewRequest(body) ==
    [stage |-> "received", endpoint |-> body.endpoint,
     catalog |-> body.catalog, version |-> body.version,
     containerId |-> 0, tempDir |-> FALSE, cached |-> FALSE,
     read |-> "none", effects |-> {}, status |-> 0]

\* The request with its response sent.
Answered(req, status) == [req EXCEPT !.stage = "done", !.status = status]

\* The request after a throw: fetch-operators goes through the cleanup of
\* its catch block, the other two handlers answer at once.
Thrown(req) ==
    IF req.endpoint = "fetch-operators"
    THEN IF req.containerId # 0 THEN [req EXCEPT !.stage = "rmf"]
         ELSE IF req.tempDir THEN [req EXCEPT !.stage = "rmdir"]
         ELSE Answered(req, 500)
    ELSE Answered(req, 500)

Did(req, effect) == [req EXCEPT !.effects = @ \cup {effect}]

InitCache ==
    /\ requests = [r \in 1..MaxRequests |-> NoCall]
    /\ cache = "absent"
    /\ containers = {}
    /\ catalogFs = Idle
    /\ configFile = Idle
    /\ PageLoaded
    /\ AsyncIdle
    /\ StreamIdle
    /\ TabsIdle
    /\ SynthIdle
    /\ ApiIdle
    /\ FbcIdle

CacheUnchanged ==
    UNCHANGED <<synthVars, apiVars, envVars, fbcVars, pageVars, callVars,
                asyncVars, streamVars, tabVars>>

\* A request arrives and is validated.
Receive ==
    /\ \E r \in 1..MaxRequests :
       \E body \in RequestBodies :
          /\ requests[r].stage = "none"
          /\ \A j \in 1..(r - 1) : requests[j].stage # "none"
          /\ requests' = [requests EXCEPT ![r] =
                IF Rejected(body) THEN Answered(NewRequest(body), 400)
                ELSE [NewRequest(body) EXCEPT !.stage =
                         IF body.endpoint = "fetch-operators" THEN "pull"
                         ELSE "access"]]
    /\ UNCHANGED <<cache, containers>>
    /\ CacheUnchanged

\* podman pull and getImageId, which succeed or fail.
PullImage ==
    /\ \E r \in 1..MaxRequests :
       \E success \in BOOLEAN :
          /\ requests[r].stage = "pull"
          /\ requests' = [requests EXCEPT ![r] =
                LET req == Did(@, "pull")
                IN IF ~success THEN Thrown(req)
                   ELSE [req EXCEPT !.stage =
                            IF req.endpoint = "fetch-operators" THEN "access"
                            ELSE "create"]]
    /\ UNCHANGED <<cache, containers>>
    /\ CacheUnchanged

\* Whether fs.access finds what the handler looks for: the cache directory
\* (fetch-operators), its configs tree (get-latest-versions) or the
\* operator's directory in it, which a partial extraction may or may not
\* hold yet (operator-details).
Accessible(endpoint, state) ==
    IF endpoint = "fetch-operators" THEN {state # "absent"}
    ELSE IF endpoint = "get-latest-versions"
    THEN {state \in {"partial", "full"}}
    ELSE IF state = "partial" THEN BOOLEAN
    ELSE {state = "full"}

\* The cache check.
CheckCache ==
    /\ \E r \in {q \in 1..MaxRequests : requests[q].stage = "access"} :
       \E present \in Accessible(requests[r].endpoint, cache) :
          /\ requests' = [requests EXCEPT ![r] =
                LET req == @
                IN IF present
                   THEN [req EXCEPT !.cached = TRUE, !.stage = "read"]
                   ELSE [req EXCEPT !.stage =
                            IF req.endpoint = "fetch-operators" THEN "mkdir"
                            ELSE "pull"]]
    /\ UNCHANGED <<cache, containers>>
    /\ CacheUnchanged

\* fs.mkdir(cacheDir, {recursive: true}), which succeeds or rejects.
MakeCacheDir ==
    /\ \E r \in 1..MaxRequests :
       \E success \in BOOLEAN :
          /\ requests[r].stage = "mkdir"
          /\ requests' = [requests EXCEPT ![r] =
                LET req == Did(@, "mkdir")
                IN IF ~success THEN Thrown(req)
                   ELSE IF req.endpoint = "fetch-operators"
                   THEN [req EXCEPT !.tempDir = TRUE, !.stage = "create"]
                   ELSE [req EXCEPT !.stage = "copy"]]
          /\ cache' = IF success /\ cache = "absent" THEN "empty" ELSE cache
    /\ UNCHANGED containers
    /\ CacheUnchanged

\* podman create, which succeeds or fails.  fetch-operators throws on a
\* failure; the other two handlers go on with an empty container id.
CreateContainer ==
    /\ \E r \in 1..MaxRequests :
       \E success \in BOOLEAN :
          /\ requests[r].stage = "create"
          /\ requests' = [requests EXCEPT ![r] =
                LET req == Did(@, "create")
                    next == IF req.endpoint = "fetch-operators" THEN "copy"
                            ELSE "mkdir"
                IN IF success
                   THEN [req EXCEPT !.containerId = r, !.stage = next]
                   ELSE IF req.endpoint = "fetch-operators" THEN Thrown(req)
                   ELSE [req EXCEPT !.stage = next]]
          /\ containers' = IF success THEN containers \cup {r} ELSE containers
    /\ UNCHANGED cache
    /\ CacheUnchanged

\* podman cp of the container's /configs into the cache directory starts,
\* or fails at once (it does when there is no container or no directory).
\* fetch-operators throws on a failure; the other two handlers go on.
CopyBegin ==
    /\ \E r \in 1..MaxRequests :
       \E success \in BOOLEAN :
          /\ requests[r].stage = "copy"
          /\ success => requests[r].containerId # 0 /\ cache # "absent"
          /\ requests' = [requests EXCEPT ![r] =
                LET req == Did(@, "cp")
                IN IF success THEN [req EXCEPT !.stage = "copying"]
                   ELSE IF req.endpoint = "fetch-operators" THEN Thrown(req)
                   ELSE [req EXCEPT !.stage = "rm"]]
          /\ cache' = IF success /\ cache = "empty" THEN "partial" ELSE cache
    /\ UNCHANGED containers
    /\ CacheUnchanged

\* podman cp ends: everything is extracted, or it fails on the way (it does
\* when the directory was removed meanwhile) and leaves what it wrote.
CopyEnd ==
    /\ \E r \in 1..MaxRequests :
       \E success \in BOOLEAN :
          /\ requests[r].stage = "copying"
          /\ success => cache # "absent"
          /\ requests' = [requests EXCEPT ![r] =
                LET req == @
                IN IF req.endpoint = "fetch-operators"
                   THEN IF success THEN [req EXCEPT !.stage = "read"]
                        ELSE Thrown(req)
                   ELSE [req EXCEPT !.stage = "rm"]]
          /\ cache' = IF success THEN "full" ELSE cache
    /\ UNCHANGED containers
    /\ CacheUnchanged

\* What the handler reads from the cache: fetch-operators lists configs,
\* operator-details checks the operator's directory (again) and parses it,
\* get-latest-versions checks and parses the directory of every package.
\* found is whether the listing or the operator's directory is there.
ReadCache ==
    /\ \E r \in {q \in 1..MaxRequests : requests[q].stage = "read"} :
       \E found \in (IF cache = "partial"
                     /\ requests[r].endpoint = "operator-details"
                     THEN BOOLEAN
                     ELSE {cache \in {"partial", "full"}}) :
          /\ requests' = [requests EXCEPT ![r] =
                LET req == [@ EXCEPT !.read = cache]
                IN IF req.endpoint = "get-latest-versions"
                   THEN Answered(req, 200)
                   ELSE IF ~found THEN Thrown(req)
                   ELSE IF req.endpoint = "fetch-operators"
                           /\ req.containerId # 0 /\ req.tempDir
                   THEN [req EXCEPT !.stage = "rm"]
                   ELSE Answered(req, 200)]
    /\ UNCHANGED <<cache, containers>>
    /\ CacheUnchanged

\* podman rm of the container the request created.
RemoveContainer ==
    /\ \E r \in 1..MaxRequests :
          /\ requests[r].stage = "rm"
          /\ requests' = [requests EXCEPT ![r] =
                LET req == Did(@, "rm")
                IN IF req.endpoint = "fetch-operators"
                   THEN Answered(req, 200)
                   ELSE [req EXCEPT !.stage = "read"]]
          /\ containers' = containers \ {requests[r].containerId}
    /\ UNCHANGED cache
    /\ CacheUnchanged

\* The catch block of fetch-operators: podman rm -f of its container.
CleanupContainer ==
    /\ \E r \in 1..MaxRequests :
          /\ requests[r].stage = "rmf"
          /\ requests' = [requests EXCEPT ![r] =
                LET req == Did(@, "rm")
                IN IF req.tempDir THEN [req EXCEPT !.stage = "rmdir"]
                   ELSE Answered(req, 500)]
          /\ containers' = containers \ {requests[r].containerId}
    /\ UNCHANGED cache
    /\ CacheUnchanged

\* The catch block of fetch-operators: fs.rm of the cache directory it
\* created, and the response.
CleanupDir ==
    /\ \E r \in 1..MaxRequests :
          /\ requests[r].stage = "rmdir"
          /\ requests' = [requests EXCEPT ![r] =
                              Answered(Did(@, "rmdir"), 500)]
    /\ cache' = "absent"
    /\ UNCHANGED containers
    /\ CacheUnchanged

NextCache ==
    \/ Receive
    \/ PullImage
    \/ CheckCache
    \/ MakeCacheDir
    \/ CreateContainer
    \/ CopyBegin
    \/ CopyEnd
    \/ ReadCache
    \/ RemoveContainer
    \/ CleanupContainer
    \/ CleanupDir

SpecCache == InitCache /\ [][NextCache]_vars

----------------------------------------------------------------------------
(* The Update tab on files whose configured version is older than, equal   *)
(* to or newer than what the catalog's channel holds.                      *)

\* The characters of a version name, as the comparator reads them.
VersionText(v) ==
    IF v = "v1" THEN <<"v", "1">>
    ELSE IF v = "v2" THEN <<"v", "2">>
    ELSE <<"v", "1", "0">>

\* a.localeCompare(b, undefined, {numeric: true, sensitivity: 'base'}) on
\* two version names.
CompareVersions(a, b) == localeCompare(VersionText(a), VersionText(b))

OfferVersions == {"v1", "v2", "v10"}

OfferFiles ==
    {Document("ImageSetConfiguration",
              <<[catalog |-> DocImage,
                 packages |-> [i \in 1..n |->
                                  [name |-> (IF i = 1 THEN "foo" ELSE "bar"),
                                   channels |-> <<[name |-> "stable",
                                                   minVersion |-> vs[i],
                                                   maxVersion |-> NULL]>>,
                                   defaultChannel |-> NULL]]]>>) :
        n \in 1..2, vs \in [1..2 -> OfferVersions]}

\* Version lists as extractChannelsAndVersions returns them: greatest
\* first under the numeric comparison.
OfferGraphs ==
    {Graph(NULL, <<[name |-> "stable", versions |-> versions]>>) :
        versions \in {<<"v1">>, <<"v2", "v1">>, <<"v10", "v2", "v1">>}}

OfferCatalogs == [Ops -> OfferGraphs]

InitOffer ==
    /\ configFile \in OfferFiles
    /\ catalogFs \in OfferCatalogs
    /\ PageLoaded
    /\ SynthIdle
    /\ ApiIdle
    /\ FbcIdle
    /\ AsyncIdle
    /\ StreamIdle
    /\ TabsIdle
    /\ ServerIdle

NextOffer ==
    \/ Upload
    \/ ToggleCheckbox
    \/ SelectAll
    \/ ClickUpdate

SpecOffer == InitOffer /\ [][NextOffer]_vars

----------------------------------------------------------------------------
(* The decoder's stream scan, iteration by iteration of its while loop.    *)

StreamChars == {"{", "}", "[", "]", "1", " "}

\* The contents the stream scan is handed: trimmed, and not parsable as
\* one JSON text.
StreamContents ==
    {s \in UNION {[1..n -> StreamChars] : n \in 0..MaxStreamLen} :
        Trim(s) = s /\ ~JSONParse(s).ok}

Exit(position) == [position |-> position, pushed |-> <<>>, exit |-> TRUE]

\* A faulty variant of StreamStep, for testing C38_Terminates: after a
\* candidate that fails to parse the scan stays where it is.
StreamStepRetrying(content, position) ==
    LET start == SkipSpace(content, position)
        endPos == ScanEnd(content, start, 0, 0, FALSE, FALSE)
        obj == JSONParse(SubSeq(content, start, endPos - 1))
    IN IF position > Len(content) THEN Exit(position)
       ELSE IF start > Len(content) THEN Exit(start)
       ELSE IF endPos = 0 THEN Exit(start)
       ELSE IF obj.ok
       THEN [position |-> endPos, pushed |-> <<obj.value>>, exit |-> FALSE]
       ELSE [position |-> start, pushed |-> <<>>, exit |-> FALSE]

\* One evaluation of the while condition and, when it holds, one pass of
\* the loop body: the whitespace skip, the brace scan, and then the push
\* of the parsed candidate, the jump to the next '{' or '[', or a break.
StreamStep(content, position) ==
    LET start == SkipSpace(content, position)
        endPos == ScanEnd(content, start, 0, 0, FALSE, FALSE)
        obj == JSONParse(SubSeq(content, start, endPos - 1))
        nextStart == NextStart(content, start)
    IN IF position > Len(content) THEN Exit(position)
       ELSE IF start > Len(content) THEN Exit(start)
       ELSE IF endPos = 0 THEN Exit(start)
       ELSE IF obj.ok
       THEN [position |-> endPos, pushed |-> <<obj.value>>, exit |-> FALSE]
       ELSE IF nextStart # 0 /\ nextStart > start
       THEN [position |-> nextStart, pushed |-> <<>>, exit |-> FALSE]
       ELSE Exit(start)

InitStream ==
    /\ StreamIdle
    /\ SynthIdle
    /\ ApiIdle
    /\ PageIdle
    /\ FbcIdle
    /\ AsyncIdle
    /\ ServerIdle
    /\ TabsIdle

\* JSON.parse of a file's content has thrown: the scan starts on the
\* trimmed content, at its first character.
StartStream ==
    /\ loopState = "idle"
    /\ loopContent' \in StreamContents
    /\ loopPosition' = 1
    /\ loopObjects' = <<>>
    /\ loopState' = "running"
    /\ UNCHANGED <<synthVars, apiVars, envVars, pageVars, callVars, fbcVars,
                   asyncVars, serverVars, tabVars>>

StreamIteration ==
    /\ loopState = "running"
    /\ LET step == StreamStep(loopContent, loopPosition)
       IN /\ loopPosition' = step.position
          /\ loopObjects' = loopObjects \o step.pushed
          /\ loopState' = IF step.exit THEN "exited" ELSE "running"
    /\ UNCHANGED <<loopContent, synthVars, apiVars, envVars, pageVars,
                   callVars, fbcVars, asyncVars, serverVars, tabVars>>

NextStream == StartStream \/ StreamIteration

\* The loop is synchronous code: an iteration that can run does run.
SpecStream ==
    InitStream /\ [][NextStream]_vars /\ WF_vars(StreamIteration)

----------------------------------------------------------------------------
(* The client's log panel.  An entry is written as the number of the       *)
(* addLogEntry call that appended it; the entry of the page's markup is 0. *)
(* AddLogEntry stands for a call from any handler of the page or from the  *)
(* server's log stream: the panel's content depends on the calls alone,    *)
(* so the specifications of the tabs leave the panel unchanged.            *)

LogLimit == 500

\* A faulty variant of addLogEntry, for testing C39_Capped: beyond the
\* limit the entry removed is the one just appended.
addLogEntryDroppingNewest(content, entry) ==
    LET appended == Append(content, entry)
    IN IF Len(appended) > LogLimit
       THEN SubSeq(appended, 1, Len(appended) - 1)
       ELSE appended

addLogEntry(content, entry) ==
    LET appended == Append(content, entry)
    IN IF Len(appended) > LogLimit THEN Tail(appended) ELSE appended

InitLog ==
    /\ LogsLoaded
    /\ CreateLoaded
    /\ FetchLoaded
    /\ StreamIdle
    /\ SynthIdle
    /\ ApiIdle
    /\ PageIdle
    /\ FbcIdle
    /\ AsyncIdle
    /\ ServerIdle

AddLogEntry ==
    /\ logCalls < MaxLogCalls
    /\ logCalls' = logCalls + 1
    /\ logsContent' = addLogEntry(logsContent, logCalls + 1)
    /\ UNCHANGED <<synthVars, apiVars, envVars, pageVars, callVars, fbcVars,
                   asyncVars, serverVars, streamVars, createVars, fetchVars>>

ClearLogs ==
    /\ logCalls < MaxLogCalls
    /\ logCalls' = logCalls + 1
    /\ logsContent' = addLogEntry(<<>>, logCalls + 1)
    /\ UNCHANGED <<synthVars, apiVars, envVars, pageVars, callVars, fbcVars,
                   asyncVars, serverVars, streamVars, createVars, fetchVars>>

NextLog == AddLogEntry \/ ClearLogs

SpecLog == InitLog /\ [][NextLog]_vars

----------------------------------------------------------------------------
(* The Fetch tab of the page.  fetchTab holds the controls (the value of   *)
(* each select, the options of the operator select, which controls are     *)
(* disabled) and the module variables operatorsCache, cachedCatalog and    *)
(* cachedVersion.  A fetchOperators call waits in fetchCalls between its   *)
(* fetch and the response; responses arrive in any order.  The page is     *)
(* followed from its load to its View Details navigation.                  *)

\* What the server lists for a catalog and version.
ListedOperators(catalog, version) ==
    IF catalog = "redhat-operator-index"
    THEN IF version = "v4.14" THEN <<"bar", "foo">> ELSE <<"foo">>
    ELSE IF version = "v4.14" THEN <<"baz">> ELSE <<>>

\* The answers a fetch-operators request can get: the list, or an error.
FetchOutcomes(catalog, version) ==
    {[ok |-> TRUE, operators |-> ListedOperators(catalog, version)],
     [ok |-> FALSE, operators |-> <<>>]}

Waiting(calls) == {k \in DOMAIN calls : calls[k] # NotWaiting}

FreeSlots(calls) == {k \in DOMAIN calls : calls[k] = NotWaiting}

updateFetchButtonState(tab) ==
    [tab EXCEPT !.fetchDisabled =
        ~(tab.catalogSelect # "" /\ tab.versionSelect # "")]

clearCacheIfNeeded(tab) ==
    IF /\ tab.cachedCatalog # NULL
       /\ tab.cachedVersion # NULL
       /\ \/ tab.cachedCatalog # tab.catalogSelect
          \/ tab.cachedVersion # tab.versionSelect
    THEN [tab EXCEPT !.operatorsCache = [key \in CacheKeys |-> NULL],
                     !.cachedCatalog = NULL,
                     !.cachedVersion = NULL]
    ELSE tab

getCachedOperators(tab, catalog, version) ==
    tab.operatorsCache[<<catalog, version>>]

cacheOperators(tab, catalog, version, operators) ==
    [tab EXCEPT !.operatorsCache[<<catalog, version>>] = operators,
                !.cachedCatalog = catalog,
                !.cachedVersion = version]

setLoading(tab, loading) == [tab EXCEPT !.fetchDisabled = loading]

\* Resetting innerHTML leaves the select on its placeholder option, so
\* updateViewDetailsButtonState disables the View Details button.
populateOperatorDropdown(tab, operators) ==
    [tab EXCEPT !.operatorOptions = operators,
                !.operatorSelect = "",
                !.operatorDisabled = FALSE,
                !.viewDetailsDisabled = TRUE]

FetchUnchanged ==
    UNCHANGED <<synthVars, apiVars, envVars, pageVars, callVars, fbcVars,
                asyncVars, serverVars, streamVars, createVars, logVars>>

\* catalogSelect 'change'
ChangeCatalog ==
    /\ navigation = NotNavigated
    /\ \E catalog \in (TabCatalogs \cup {""}) \ {fetchTab.catalogSelect} :
          fetchTab' = updateFetchButtonState(clearCacheIfNeeded(
                          [fetchTab EXCEPT !.catalogSelect = catalog]))
    /\ UNCHANGED <<fetchCalls, navigation>>
    /\ FetchUnchanged

\* versionSelect 'change'
ChangeVersion ==
    /\ navigation = NotNavigated
    /\ \E version \in (TabVersions \cup {""}) \ {fetchTab.versionSelect} :
          fetchTab' = updateFetchButtonState(clearCacheIfNeeded(
                          [fetchTab EXCEPT !.versionSelect = version]))
    /\ UNCHANGED <<fetchCalls, navigation>>
    /\ FetchUnchanged

\* fetchButton 'click': fetchOperators up to its await, or to its return.
ClickFetch ==
    /\ navigation = NotNavigated
    /\ ~fetchTab.fetchDisabled
    /\ LET catalog == fetchTab.catalogSelect
           version == fetchTab.versionSelect
           cached == getCachedOperators(fetchTab, catalog, version)
       IN IF catalog = "" \/ version = ""
          THEN UNCHANGED <<fetchTab, fetchCalls>>
          ELSE IF cached # NULL /\ Len(cached) > 0
          THEN /\ fetchTab' = populateOperatorDropdown(fetchTab, cached)
               /\ UNCHANGED fetchCalls
          ELSE /\ FreeSlots(fetchCalls) # {}
               /\ fetchTab' =
                     [setLoading(fetchTab, TRUE) EXCEPT
                         !.operatorDisabled = TRUE,
                         !.operatorOptions = <<>>,
                         !.operatorSelect = "",
                         !.viewDetailsDisabled = TRUE]
               /\ LET k == CHOOSE j \in FreeSlots(fetchCalls) :
                               \A l \in FreeSlots(fetchCalls) : j <= l
                  IN fetchCalls' =
                        [fetchCalls EXCEPT ![k] =
                            [stage |-> "fetch", catalog |-> catalog,
                             version |-> version]]
    /\ UNCHANGED navigation
    /\ FetchUnchanged

\* fetchOperators from its await on: the response, the catch and the
\* finally.
FetchAnswered ==
    /\ navigation = NotNavigated
    /\ \E k \in Waiting(fetchCalls) :
          LET call == fetchCalls[k]
          IN \E outcome \in FetchOutcomes(call.catalog, call.version) :
                /\ fetchTab' =
                      setLoading(
                          IF outcome.ok /\ Len(outcome.operators) > 0
                          THEN populateOperatorDropdown(
                                   cacheOperators(fetchTab, call.catalog,
                                                  call.version,
                                                  outcome.operators),
                                   outcome.operators)
                          ELSE [fetchTab EXCEPT !.operatorDisabled = TRUE],
                          FALSE)
                /\ fetchCalls' = [fetchCalls EXCEPT ![k] = NotWaiting]
    /\ UNCHANGED navigation
    /\ FetchUnchanged

\* operatorSelect 'change'
SelectOperator ==
    /\ navigation = NotNavigated
    /\ ~fetchTab.operatorDisabled
    /\ \E operator \in (Range(fetchTab.operatorOptions) \cup {""})
                          \ {fetchTab.operatorSelect} :
          fetchTab' = [fetchTab EXCEPT !.operatorSelect = operator,
                                       !.viewDetailsDisabled = (operator = "")]
    /\ UNCHANGED <<fetchCalls, navigation>>
    /\ FetchUnchanged

\* viewDetailsButton 'click'
ViewDetails ==
    /\ navigation = NotNavigated
    /\ ~fetchTab.viewDetailsDisabled
    /\ fetchTab.operatorSelect # ""
    /\ fetchTab.catalogSelect # ""
    /\ fetchTab.versionSelect # ""
    /\ navigation' = [catalog |-> fetchTab.catalogSelect,
                      version |-> fetchTab.versionSelect,
                      operator |-> fetchTab.operatorSelect]
    /\ UNCHANGED <<fetchTab, fetchCalls>>
    /\ FetchUnchanged

InitFetch ==
    /\ FetchLoaded
    /\ CreateLoaded
    /\ LogsLoaded
    /\ StreamIdle
    /\ SynthIdle
    /\ ApiIdle
    /\ PageIdle
    /\ FbcIdle
    /\ AsyncIdle
    /\ ServerIdle

NextFetch ==
    \/ ChangeCatalog
    \/ ChangeVersion
    \/ ClickFetch
    \/ FetchAnswered
    \/ SelectOperator
    \/ ViewDetails

SpecFetch == InitFetch /\ [][NextFetch]_vars

----------------------------------------------------------------------------
(* The Create tab of the page.  createTab holds the controls and the       *)
(* module variables; a handler waits in createCalls between its fetch and  *)
(* the response, and responses arrive in any order.  The page is followed  *)
(* from its load to its first generate request.                            *)

ConfigCatalogs == {"redhat-operator-index"}

Channel(name, versions) == [name |-> name, versions |-> versions]

\* What the server answers to /api/operator-details for an operator that
\* it lists: the channels of the operator with their versions, newest
\* first, and its default channel.
OperatorDetails(catalog, version, operator) ==
    IF catalog = "redhat-operator-index" /\ operator = "foo"
    THEN IF version = "v4.14"
         THEN [channels |-> <<Channel("stable", <<"1.1.0", "1.0.0">>)>>,
               defaultChannel |-> "stable"]
         ELSE [channels |-> <<Channel("stable", <<"1.2.0">>)>>,
               defaultChannel |-> "stable"]
    ELSE IF operator = "bar"
    THEN [channels |-> <<Channel("fast", <<"0.9.0">>)>>,
          defaultChannel |-> NULL]
    ELSE [channels |-> <<Channel("alpha", <<"0.1.0">>)>>,
          defaultChannel |-> "alpha"]

\* The answers an operator-details request can get: the details of a
\* listed operator, or an error.
DetailsOutcomes(catalog, version, operator) ==
    {[ok |-> FALSE, channels |-> <<>>, defaultChannel |-> NULL]}
    \cup IF operator \in Range(ListedOperators(catalog, version))
         THEN {[ok |-> TRUE] @@ OperatorDetails(catalog, version, operator)}
         ELSE {}

ChannelsNamed(channels, name) ==
    {i \in 1..Len(channels) : channels[i].name = name}

\* channels.find(c => c.name === name), for a name that is found
FindChannel(channels, name) ==
    channels[CHOOSE i \in ChannelsNamed(channels, name) :
                 \A j \in ChannelsNamed(channels, name) : i <= j]

updateConfigFetchButtonState(tab) ==
    [tab EXCEPT !.fetchDisabled =
        ~(tab.catalogSelect # "" /\ tab.versionSelect # "")]

updateConfigAddButtonState(tab) ==
    [tab EXCEPT !.addDisabled =
        ~(/\ tab.operatorSelect # ""
          /\ tab.channelSelect # ""
          /\ tab.versionSelectOperator # "")]

\* The configChannelSelect 'change' handler, which the operator handler
\* also dispatches.
ChannelChanged(tab) ==
    IF \/ tab.channelSelect = ""
       \/ ChannelsNamed(tab.currentOperatorChannels, tab.channelSelect) = {}
    THEN tab
    ELSE updateConfigAddButtonState(
             [tab EXCEPT
                 !.versionOptions =
                     FindChannel(tab.currentOperatorChannels,
                                 tab.channelSelect).versions,
                 !.versionSelectOperator = "",
                 !.versionDisabled = FALSE])

\* The selection that the Add handler builds.
Selection(tab) ==
    LET default == tab.currentOperatorDefaultChannel
        found == IF default = NULL THEN {}
                 ELSE ChannelsNamed(tab.currentOperatorChannels, default)
    IN [operator |-> tab.operatorSelect,
        channel |-> tab.channelSelect,
        version |-> tab.versionSelectOperator,
        defaultChannel |-> default,
        defaultChannelVersion |->
            IF /\ found # {}
               /\ Len(FindChannel(tab.currentOperatorChannels,
                                  default).versions) > 0
            THEN FindChannel(tab.currentOperatorChannels,
                             default).versions[1]
            ELSE NULL]

FirstFree(calls) ==
    CHOOSE k \in FreeSlots(calls) : \A l \in FreeSlots(calls) : k <= l

CreateUnchanged ==
    UNCHANGED <<synthVars, apiVars, envVars, pageVars, callVars, fbcVars,
                asyncVars, serverVars, streamVars, fetchVars, logVars>>

\* configCatalogSelect 'change'
ConfigChangeCatalog ==
    /\ createReq = NotGenerated
    /\ \E catalog \in (ConfigCatalogs \cup {""}) \ {createTab.catalogSelect} :
          createTab' =
              [updateConfigFetchButtonState(
                   [createTab EXCEPT !.catalogSelect = catalog])
               EXCEPT !.operatorSelect = "",
                      !.channelSelect = "",
                      !.versionSelectOperator = "",
                      !.operatorDisabled = TRUE,
                      !.channelDisabled = TRUE,
                      !.versionDisabled = TRUE,
                      !.currentOperatorDefaultChannel = NULL]
    /\ UNCHANGED <<createCalls, createReq>>
    /\ CreateUnchanged

\* configVersionSelect 'change'
ConfigChangeVersion ==
    /\ createReq = NotGenerated
    /\ \E version \in (TabVersions \cup {""}) \ {createTab.versionSelect} :
          createTab' = updateConfigFetchButtonState(
                           [createTab EXCEPT !.versionSelect = version])
    /\ UNCHANGED <<createCalls, createReq>>
    /\ CreateUnchanged

\* configFetchOperatorsButton 'click', up to its await or its return
ConfigClickFetch ==
    /\ createReq = NotGenerated
    /\ ~createTab.fetchDisabled
    /\ IF createTab.catalogSelect = "" \/ createTab.versionSelect = ""
       THEN UNCHANGED <<createTab, createCalls>>
       ELSE /\ FreeSlots(createCalls) # {}
            /\ createTab' =
                  [createTab EXCEPT
                      !.selectedOperators = <<>>,
                      !.generateDisabled = TRUE,
                      !.fetchDisabled = TRUE,
                      !.currentConfigCatalog = createTab.catalogSelect,
                      !.currentConfigVersion = createTab.versionSelect]
            /\ createCalls' =
                  [createCalls EXCEPT ![FirstFree(createCalls)] =
                      [stage |-> "fetch",
                       catalog |-> createTab.catalogSelect,
                       version |-> createTab.versionSelect]]
    /\ UNCHANGED createReq
    /\ CreateUnchanged

\* The same handler from its await on.
ConfigFetchAnswered ==
    /\ createReq = NotGenerated
    /\ \E k \in Waiting(createCalls) :
          /\ createCalls[k].stage = "fetch"
          /\ \E outcome \in FetchOutcomes(createCalls[k].catalog,
                                          createCalls[k].version) :
                createTab' =
                    IF outcome.ok
                    THEN [createTab EXCEPT
                             !.operatorOptions = outcome.operators,
                             !.operatorSelect = "",
                             !.operatorDisabled = FALSE,
                             !.fetchDisabled = FALSE]
                    ELSE [createTab EXCEPT !.fetchDisabled = FALSE]
          /\ createCalls' = [createCalls EXCEPT ![k] = NotWaiting]
    /\ UNCHANGED createReq
    /\ CreateUnchanged

\* configOperatorSelect 'change', up to its await or its return
ConfigSelectOperator ==
    /\ createReq = NotGenerated
    /\ ~createTab.operatorDisabled
    /\ \E operator \in (Range(createTab.operatorOptions) \cup {""})
                          \ {createTab.operatorSelect} :
          IF operator = ""
          THEN /\ createTab' = [createTab EXCEPT
                                   !.operatorSelect = "",
                                   !.channelOptions = <<>>,
                                   !.channelSelect = "",
                                   !.channelDisabled = TRUE]
               /\ UNCHANGED createCalls
          ELSE /\ createTab' = [createTab EXCEPT !.operatorSelect = operator]
               /\ IF \/ createTab.currentConfigCatalog = NULL
                     \/ createTab.currentConfigVersion = NULL
                  THEN UNCHANGED createCalls
                  ELSE /\ FreeSlots(createCalls) # {}
                       /\ createCalls' =
                             [createCalls EXCEPT ![FirstFree(createCalls)] =
                                 [stage |-> "details",
                                  catalog |-> createTab.currentConfigCatalog,
                                  version |-> createTab.currentConfigVersion,
                                  operator |-> operator]]
    /\ UNCHANGED createReq
    /\ CreateUnchanged

\* The same handler from its await on.
ConfigDetailsAnswered ==
    /\ createReq = NotGenerated
    /\ \E k \in Waiting(createCalls) :
          /\ createCalls[k].stage = "details"
          /\ \E data \in DetailsOutcomes(createCalls[k].catalog,
                                         createCalls[k].version,
                                         createCalls[k].operator) :
                LET names == [i \in 1..Len(data.channels) |->
                                 data.channels[i].name]
                    populated ==
                        [createTab EXCEPT
                            !.channelOptions = names,
                            !.channelSelect = "",
                            !.channelDisabled = FALSE,
                            !.currentOperatorChannels = data.channels,
                            !.currentOperatorDefaultChannel =
                                data.defaultChannel]
                IN createTab' =
                      IF ~data.ok THEN createTab
                      ELSE IF data.defaultChannel = NULL THEN populated
                      ELSE ChannelChanged(
                               [populated EXCEPT !.channelSelect =
                                   IF data.defaultChannel \in Range(names)
                                   THEN data.defaultChannel ELSE ""])
          /\ createCalls' = [createCalls EXCEPT ![k] = NotWaiting]
    /\ UNCHANGED createReq
    /\ CreateUnchanged

\* configChannelSelect 'change' by the user
ConfigSelectChannel ==
    /\ createReq = NotGenerated
    /\ ~createTab.channelDisabled
    /\ \E channel \in (Range(createTab.channelOptions) \cup {""})
                         \ {createTab.channelSelect} :
          createTab' =
              ChannelChanged([createTab EXCEPT !.channelSelect = channel])
    /\ UNCHANGED <<createCalls, createReq>>
    /\ CreateUnchanged

\* configVersionSelectOperator 'change'
ConfigSelectVersion ==
    /\ createReq = NotGenerated
    /\ ~createTab.versionDisabled
    /\ \E version \in (Range(createTab.versionOptions) \cup {""})
                         \ {createTab.versionSelectOperator} :
          createTab' = updateConfigAddButtonState(
                           [createTab EXCEPT
                               !.versionSelectOperator = version])
    /\ UNCHANGED <<createCalls, createReq>>
    /\ CreateUnchanged

\* configAddOperatorButton 'click'
ConfigClickAdd ==
    /\ createReq = NotGenerated
    /\ ~createTab.addDisabled
    /\ Len(createTab.selectedOperators) < MaxSelected
    /\ createTab' =
          IF \/ createTab.operatorSelect = ""
             \/ createTab.channelSelect = ""
             \/ createTab.versionSelectOperator = ""
             \/ \E i \in 1..Len(createTab.selectedOperators) :
                   /\ createTab.selectedOperators[i].operator
                         = createTab.operatorSelect
                   /\ createTab.selectedOperators[i].channel
                         = createTab.channelSelect
          THEN createTab
          ELSE updateConfigAddButtonState(
                   [createTab EXCEPT
                       !.selectedOperators = Append(@, Selection(createTab)),
                       !.generateDisabled = FALSE,
                       !.operatorSelect = "",
                       !.channelSelect = "",
                       !.versionSelectOperator = "",
                       !.channelDisabled = TRUE,
                       !.versionDisabled = TRUE,
                       !.currentOperatorDefaultChannel = NULL])
    /\ UNCHANGED <<createCalls, createReq>>
    /\ CreateUnchanged

\* A .remove-operator-button 'click'
ConfigRemove ==
    /\ createReq = NotGenerated
    /\ \E index \in 1..Len(createTab.selectedOperators) :
          LET kept == [i \in 1..(Len(createTab.selectedOperators) - 1) |->
                          createTab.selectedOperators[
                              IF i < index THEN i ELSE i + 1]]
          IN createTab' = [createTab EXCEPT
                              !.selectedOperators = kept,
                              !.generateDisabled = (Len(kept) = 0)]
    /\ UNCHANGED <<createCalls, createReq>>
    /\ CreateUnchanged

\* configGenerateButton 'click', up to its fetch
ConfigClickGenerate ==
    /\ createReq = NotGenerated
    /\ ~createTab.generateDisabled
    /\ Len(createTab.selectedOperators) > 0
    /\ createReq' = [catalog |-> createTab.currentConfigCatalog,
                     version |-> createTab.currentConfigVersion,
                     selections |-> createTab.selectedOperators]
    /\ UNCHANGED <<createTab, createCalls>>
    /\ CreateUnchanged

InitCreate ==
    /\ CreateLoaded
    /\ FetchLoaded
    /\ LogsLoaded
    /\ StreamIdle
    /\ SynthIdle
    /\ ApiIdle
    /\ PageIdle
    /\ FbcIdle
    /\ AsyncIdle
    /\ ServerIdle

NextCreate ==
    \/ ConfigChangeCatalog
    \/ ConfigChangeVersion
    \/ ConfigClickFetch
    \/ ConfigFetchAnswered
    \/ ConfigSelectOperator
    \/ ConfigDetailsAnswered
    \/ ConfigSelectChannel
    \/ ConfigSelectVersion
    \/ ConfigClickAdd
    \/ ConfigRemove
    \/ ConfigClickGenerate

SpecCreate == InitCreate /\ [][NextCreate]_vars

----------------------------------------------------------------------------
(* Properties                                                              *)

\* Vocabulary of the properties of the Update tab.  The packages of the
\* uploaded document that the request does not name for removal and the
\* packages of the answered document, both in document order: the
\* reconciler never reorders, so the i-th of the former is rewritten into
\* the i-th of the latter.
KeptPackages ==
    SelectSeq(AllPackages(updateReq.originalConfig.mirror.operators),
              LAMBDA p : p.name \notin Range(updateReq.removeOperators))

OutputPackages == AllPackages(updateRes.yaml.mirror.operators)

ChannelNameSeq(pkg) == [k \in 1..Len(pkg.channels) |-> pkg.channels[k].name]

\* In the catalog, the operator of p exists and p's configured (first)
\* channel has versions.
ChannelFound(p) ==
    /\ Len(p.channels) > 0
    /\ catalogFs[p.name].found
    /\ LatestOf(catalogFs[p.name], p.channels[1].name) # NULL

\* ... and that channel is not the operator's resolved default channel.
OnNonDefaultChannel(p) ==
    /\ ChannelFound(p)
    /\ catalogFs[p.name].defaultChannel # NULL
    /\ catalogFs[p.name].defaultChannel # p.channels[1].name

\* In the catalog, the operator of p exists and p's configured channel has
\* no versions.
ChannelMissing(p) ==
    /\ Len(p.channels) > 0
    /\ catalogFs[p.name].found
    /\ catalogFs[p.name].parsed
    /\ LatestOf(catalogFs[p.name], p.channels[1].name) = NULL

(* C1.  After a successful run of the reconciler, whatever the input      *)
(* document and the updates, removeOperators, addDefaultChannels and       *)
(* setDefaultChannelParam of the request, no package entry of the output   *)
(* document has a defaultChannel marker equal to the name of one of its    *)
(* channel constraints.                                                    *)
C1_NoRedundantMarker ==
    apiRes.status = 200 =>
        \A p \in Range(AllPackages(apiRes.yaml.mirror.operators)) :
            HasChannels(p) => p.defaultChannel \notin ChannelNames(p)

\* A run on a package that is kept and either arrives with a redundant
\* marker or is asked to take its marker from one of its channels.
C1_Witness ==
    /\ apiRes.status = 200
    /\ \E p \in Range(AllPackages(apiReq.originalConfig.mirror.operators)) :
          /\ p.name \notin Range(apiReq.removeOperators)
          /\ HasChannels(p)
          /\ p.defaultChannel # NULL
          /\ \/ p.defaultChannel \in ChannelNames(p)
             \/ \E a \in Range(apiReq.setDefaultChannelParam) :
                   /\ a.operator = p.name
                   /\ a.defaultChannel \in ChannelNames(p)

\* The precondition of the round trip: no selection names its own channel
\* as its default channel.
NoRedundantSelection ==
    \A i \in 1..Len(genReq.selections) :
        \/ genReq.selections[i].defaultChannel = NULL
        \/ genReq.selections[i].defaultChannel # genReq.selections[i].channel

(* C2, as the code has it.  For selections none of which names its own     *)
(* channel as default, parsing the synthesized document returns one        *)
(* package per selection, in the same order, with the selection's          *)
(* operator (as name), channel, version and defaultChannel; the            *)
(* selection's defaultChannelVersion is not returned.  The catalog name    *)
(* and version are returned unchanged when the catalog name holds no ':'.  *)
C2_RoundTrip ==
    (parseRes.status = 200 /\ NoRedundantSelection) =>
        /\ Len(parseRes.parsed.packages) = Len(genReq.selections)
        /\ \A i \in 1..Len(genReq.selections) :
              parseRes.parsed.packages[i] =
                  [name |-> genReq.selections[i].operator,
                   channel |-> genReq.selections[i].channel,
                   version |-> genReq.selections[i].version,
                   defaultChannel |-> genReq.selections[i].defaultChannel]
        /\ ":" \notin Range(genReq.catalog) =>
              /\ parseRes.parsed.catalog = genReq.catalog
              /\ parseRes.parsed.version = genReq.version

\* A round trip of two selections, one of them with a default channel, under
\* a catalog name without ':'.
C2_Witness ==
    /\ parseRes.status = 200
    /\ NoRedundantSelection
    /\ Len(genReq.selections) = 2
    /\ genReq.selections[1] # genReq.selections[2]
    /\ \E i \in 1..2 : genReq.selections[i].defaultChannel # NULL
    /\ ":" \notin Range(genReq.catalog)

(* C2, as stated.  Under the same precondition the parse returns the       *)
(* catalog name and version of the request and selections equal to the     *)
(* input ones, field by field (operator, channel, version, defaultChannel, *)
(* defaultChannelVersion) and in the same order.                           *)
C2_AsStated ==
    (parseRes.status = 200 /\ NoRedundantSelection) =>
        /\ parseRes.parsed.catalog = genReq.catalog
        /\ parseRes.parsed.version = genReq.version
        /\ Len(parseRes.parsed.packages) = Len(genReq.selections)
        /\ \A i \in 1..Len(genReq.selections) :
              genReq.selections[i] =
                  [operator |-> parseRes.parsed.packages[i].name,
                   channel |-> parseRes.parsed.packages[i].channel,
                   version |-> parseRes.parsed.packages[i].version,
                   defaultChannel |->
                       parseRes.parsed.packages[i].defaultChannel,
                   defaultChannelVersion |-> NULL]

(* C3.  When the page's request carries a plain update (no originalChannel)*)
(* for a kept package whose configured channel exists in the catalog, the  *)
(* first channel constraint of the resulting package keeps its name, has   *)
(* minVersion equal to the update's new version, the channel's latest      *)
(* version in the catalog, and has no maxVersion.                          *)
C3_VersionUpdated ==
    updateRes.status = 200 =>
        \A i \in 1..Len(KeptPackages) :
        \A u \in Range(updateReq.updates) :
            (/\ ChannelFound(KeptPackages[i])
             /\ u.name = KeptPackages[i].name
             /\ u.originalChannel = NULL
             /\ u.channel = KeptPackages[i].channels[1].name)
            => /\ i <= Len(OutputPackages)
               /\ Len(OutputPackages[i].channels) >= 1
               /\ u.newVersion = LatestOf(catalogFs[u.name], u.channel)
               /\ OutputPackages[i].channels[1] =
                      [name |-> KeptPackages[i].channels[1].name,
                       minVersion |-> u.newVersion,
                       maxVersion |-> NULL]

\* An answered request with such an update for a package whose constraint
\* arrived with a legacy maxVersion and an older minVersion.
C3_Witness ==
    /\ updateRes.status = 200
    /\ \E i \in 1..Len(KeptPackages) :
       \E u \in Range(updateReq.updates) :
          /\ ChannelFound(KeptPackages[i])
          /\ u.name = KeptPackages[i].name
          /\ u.originalChannel = NULL
          /\ u.channel = KeptPackages[i].channels[1].name
          /\ KeptPackages[i].channels[1].maxVersion # NULL
          /\ KeptPackages[i].channels[1].minVersion # NULL
          /\ KeptPackages[i].channels[1].minVersion # u.newVersion

(* C4, as stated.  When a kept package is on a channel other than the      *)
(* operator's resolved default channel, that default channel is not among  *)
(* its constraints and the request adds the default channel for the        *)
(* operator, the output package keeps its constraints (by name, in order), *)
(* gains one more for the default channel whose minVersion is that         *)
(* channel's own latest version, and has no defaultChannel marker.         *)
C4_DefaultChannelAdded ==
    updateRes.status = 200 =>
        \A i \in 1..Len(KeptPackages) :
            LET p == KeptPackages[i]
                d == catalogFs[p.name].defaultChannel
            IN (/\ OnNonDefaultChannel(p)
                /\ d \notin ChannelNames(p)
                /\ \E a \in Range(updateReq.addDefaultChannels) :
                      a.operator = p.name)
               => /\ i <= Len(OutputPackages)
                  /\ ChannelNameSeq(OutputPackages[i]) =
                         Append(ChannelNameSeq(p), d)
                  /\ OutputPackages[i].channels[Len(p.channels) + 1] =
                         [name |-> d,
                          minVersion |-> LatestOf(catalogFs[p.name], d),
                          maxVersion |-> NULL]
                  /\ OutputPackages[i].defaultChannel = NULL

(* C5.  Every operator the version comparison flags operatorNotFound has   *)
(* no package entry in the answered document and is named by the           *)
(* confirmation dialog the user accepted and by the request's              *)
(* removeOperators; and the answered document holds, in order, exactly the *)
(* packages of the uploaded document whose operator the dialog did not     *)
(* name.                                                                   *)
C5_Removed ==
    updateRes.status = 200 =>
        /\ \A k \in 1..Len(currentVersionInfo) :
              currentVersionInfo[k].operatorNotFound =>
                 /\ currentVersionInfo[k].name \in Range(confirmShown)
                 /\ currentVersionInfo[k].name
                        \in Range(updateReq.removeOperators)
                 /\ \A q \in Range(OutputPackages) :
                       q.name # currentVersionInfo[k].name
        /\ [i \in 1..Len(OutputPackages) |-> OutputPackages[i].name] =
               LET kept == SelectSeq(
                       AllPackages(updateReq.originalConfig.mirror.operators),
                       LAMBDA p : p.name \notin Range(confirmShown))
               IN [i \in 1..Len(kept) |-> kept[i].name]

\* An answered request for a document naming an operator that the catalog
\* lacks next to one that it holds.
C5_Witness ==
    /\ updateRes.status = 200
    /\ \E k \in 1..Len(currentVersionInfo) :
          /\ currentVersionInfo[k].operatorNotFound
          /\ \E p \in Range(AllPackages(
                               updateReq.originalConfig.mirror.operators)) :
                p.name = currentVersionInfo[k].name
    /\ Len(OutputPackages) > 0

(* C6, as stated.  When the configured channel of a kept package with a    *)
(* single constraint is absent from the catalog and the user has chosen a  *)
(* replacement channel and ticked its update checkbox, the output package  *)
(* has a single channel constraint, named after the replacement channel,   *)
(* whose minVersion is the replacement channel's latest version.           *)
C6_ChannelReplaced ==
    updateRes.status = 200 =>
        \A i \in 1..Len(KeptPackages) :
        \A k \in 1..Len(items) :
            LET p == KeptPackages[i]
                box == items[k].checkbox
            IN (/\ ChannelMissing(p)
                /\ Len(p.channels) = 1
                /\ box.present
                /\ box.checked
                /\ box.name = p.name
                /\ box.originalChannel = p.channels[1].name)
               => /\ i <= Len(OutputPackages)
                  /\ OutputPackages[i].channels =
                         <<[name |-> box.channel,
                            minVersion |->
                                LatestOf(catalogFs[p.name], box.channel),
                            maxVersion |-> NULL]>>

(* C7, as stated.  When a kept package is on a channel other than the      *)
(* operator's resolved default channel and the request asks to replace     *)
(* with the default channel for the operator, the output package's         *)
(* channel constraints are a single entry for the default channel.         *)
C7_ReplacedWithDefault ==
    updateRes.status = 200 =>
        \A i \in 1..Len(KeptPackages) :
            LET p == KeptPackages[i]
            IN (/\ OnNonDefaultChannel(p)
                /\ \E r \in Range(updateReq.replaceWithDefaultChannels) :
                      r.operator = p.name)
               => /\ i <= Len(OutputPackages)
                  /\ ChannelNameSeq(OutputPackages[i]) =
                         <<catalogFs[p.name].defaultChannel>>

(* C8.  When a kept package is on a channel other than the operator's      *)
(* resolved default channel and the request neither adds nor replaces      *)
(* with the default channel for the operator, the output package keeps     *)
(* its channel constraints (by name, in order) and its defaultChannel      *)
(* marker is the resolved default channel if and only if that channel is   *)
(* not one of the package's constraints.                                   *)
C8_Deferred ==
    updateRes.status = 200 =>
        \A i \in 1..Len(KeptPackages) :
            LET p == KeptPackages[i]
                d == catalogFs[p.name].defaultChannel
            IN (/\ OnNonDefaultChannel(p)
                /\ \A a \in Range(updateReq.addDefaultChannels) :
                      a.operator # p.name
                /\ \A r \in Range(updateReq.replaceWithDefaultChannels) :
                      r.operator # p.name)
               => /\ i <= Len(OutputPackages)
                  /\ ChannelNameSeq(OutputPackages[i]) = ChannelNameSeq(p)
                  /\ OutputPackages[i].defaultChannel = d
                        <=> d \notin ChannelNames(p)

\* An answered request that defers for a package whose marker has to be
\* set: the default channel is not a constraint and the marker arrives
\* absent or naming another channel.
C8_Witness ==
    /\ updateRes.status = 200
    /\ \E i \in 1..Len(KeptPackages) :
          LET p == KeptPackages[i]
          IN /\ OnNonDefaultChannel(p)
             /\ \A a \in Range(updateReq.addDefaultChannels) :
                   a.operator # p.name
             /\ \A r \in Range(updateReq.replaceWithDefaultChannels) :
                   r.operator # p.name
             /\ catalogFs[p.name].defaultChannel \notin ChannelNames(p)
             /\ p.defaultChannel # catalogFs[p.name].defaultChannel

(* C9.  For every selection of a synthesized document, the package entry   *)
(* carries a defaultChannel marker if and only if the selection has a      *)
(* defaultChannel that differs from its channel; the marker then equals    *)
(* the selection's defaultChannel, which is not among the package's        *)
(* channel constraints.                                                    *)
C9_MarkerRule ==
    genRes.status = 200 =>
        \A i \in 1..Len(genReq.selections) :
            LET sel == genReq.selections[i]
                pkg == genRes.yaml.mirror.operators[1].packages[i]
            IN /\ pkg.defaultChannel # NULL <=>
                     (sel.defaultChannel # NULL
                      /\ sel.defaultChannel # sel.channel)
               /\ pkg.defaultChannel # NULL =>
                     /\ pkg.defaultChannel = sel.defaultChannel
                     /\ sel.defaultChannel \notin ChannelNames(pkg)

\* A synthesized document for one selection whose default channel is its
\* channel and one whose default channel is another channel.
C9_Witness ==
    /\ genRes.status = 200
    /\ \E i, j \in 1..Len(genReq.selections) :
          /\ genReq.selections[i].defaultChannel = genReq.selections[i].channel
          /\ genReq.selections[j].defaultChannel # NULL
          /\ genReq.selections[j].defaultChannel # genReq.selections[j].channel

(* C10.  A synthesized document has one operator entry with exactly one    *)
(* package entry per selection; the i-th package entry is that of the      *)
(* i-th selection, and its channel constraints are exactly one entry       *)
(* {name: selection.channel, minVersion: selection.version}.               *)
C10_ShapeAndOrder ==
    genRes.status = 200 =>
        /\ Len(genRes.yaml.mirror.operators) = 1
        /\ Len(genRes.yaml.mirror.operators[1].packages) =
               Len(genReq.selections)
        /\ \A i \in 1..Len(genReq.selections) :
              LET sel == genReq.selections[i]
                  pkg == genRes.yaml.mirror.operators[1].packages[i]
              IN /\ pkg.name = sel.operator
                 /\ pkg.channels = <<[name |-> sel.channel,
                                      minVersion |-> sel.version,
                                      maxVersion |-> NULL]>>

\* A synthesized document for two selections of different operators, on
\* different channels and versions.
C10_Witness ==
    /\ genRes.status = 200
    /\ Len(genReq.selections) = 2
    /\ genReq.selections[1].operator # genReq.selections[2].operator
    /\ genReq.selections[1].channel # genReq.selections[2].channel
    /\ genReq.selections[1].version # genReq.selections[2].version

\* Vocabulary of the properties of the Config Parser: the package entries
\* of the uploaded document, in document order, and those of them that
\* have a channel constraint.
UploadedPackages == AllPackages(originalConfigContent.mirror.operators)

ConstrainedPackages ==
    SelectSeq(UploadedPackages, LAMBDA p : Len(p.channels) > 0)

(* C11.  Whenever the kind of the uploaded document is not                 *)
(* ImageSetConfiguration, or the document contains no package entry, the   *)
(* parse fails and the page receives no parsed configuration.              *)
C11_MalformedConfig ==
    (/\ originalConfigContent # NoFile
     /\ \/ originalConfigContent.kind # "ImageSetConfiguration"
        \/ UploadedPackages = <<>>)
        => parsedConfig = NoParsed

(* C12.  The parse of a valid document has one selection for each package  *)
(* entry that has a channel constraint, in document order; its channel and *)
(* version are those of the entry's first constraint and its defaultChannel *)
(* is the entry's marker (absent when the entry has none).                 *)
C12_FirstConstraint ==
    parsedConfig # NoParsed =>
        /\ Len(parsedConfig.packages) = Len(ConstrainedPackages)
        /\ \A i \in 1..Len(ConstrainedPackages) :
              LET pkg == ConstrainedPackages[i]
                  sel == parsedConfig.packages[i]
              IN /\ sel.name = pkg.name
                 /\ sel.channel = pkg.channels[1].name
                 /\ sel.version \in {pkg.channels[1].minVersion,
                                     pkg.channels[1].maxVersion} \ {NULL}
                 /\ pkg.channels[1].minVersion # NULL =>
                       sel.version = pkg.channels[1].minVersion
                 /\ sel.defaultChannel = pkg.defaultChannel

\* A parsed document with an entry of two constraints on different channels
\* and versions that carries a marker.
C12_Witness ==
    /\ parsedConfig # NoParsed
    /\ \E i \in 1..Len(ConstrainedPackages) :
          LET pkg == ConstrainedPackages[i]
          IN /\ Len(pkg.channels) = 2
             /\ pkg.channels[1].name # pkg.channels[2].name
             /\ pkg.channels[1].minVersion = NULL
             /\ pkg.defaultChannel # NULL

\* C12 as the specification words it: one selection for every package
\* entry of a valid document.
C12_AsStated ==
    parsedConfig # NoParsed =>
        Len(parsedConfig.packages) = Len(UploadedPackages)

\* Vocabulary of the properties of the Graph Builder: the version texts
\* the entries of the channel objects of one name resolve to.
ResolvedVersions(name) ==
    {IF BundleVersion(graphObjects, e) # <<>>
     THEN BundleVersion(graphObjects, e) ELSE e :
        e \in UNION {Range(obj.entries) :
                        obj \in {o \in Range(graphObjects) :
                                    o.schema = "olm.channel"
                                    /\ o.name = name}}}

PackagesRead == ObjectsOfSchema(graphObjects, "olm.package")

NamedChannelsRead ==
    SelectSeq(ObjectsOfSchema(graphObjects, "olm.channel"),
              LAMBDA obj : obj.name # NULL)

(* C14.  When no olm.package object supplies a default channel, the        *)
(* graph's defaultChannel is the name of the first channel discovered (and *)
(* absent when there is no channel); when the first olm.package object     *)
(* supplies one, the graph's defaultChannel is that value.  The first      *)
(* version of a channel is its latest: no version of the channel compares  *)
(* greater.                                                                *)
C14_DefaultChannel ==
    graphResult # NoGraph =>
        /\ (\A i \in 1..Len(PackagesRead) :
               PackagesRead[i].defaultChannel = NULL)
              => graphResult.defaultChannel =
                    IF NamedChannelsRead = <<>> THEN NULL
                    ELSE NamedChannelsRead[1].name
        /\ (PackagesRead # <<>> /\ PackagesRead[1].defaultChannel # NULL)
              => graphResult.defaultChannel = PackagesRead[1].defaultChannel
        /\ \A c \in Range(graphResult.channels) :
              \A v \in ResolvedVersions(c.name) :
                  localeCompare(c.versions[1], v) >= 0

\* The specification's example: stable is discovered before fast, no
\* olm.package object supplies a default, and the entries of fast are v2
\* and v3, in that order.
C14_Witness ==
    /\ graphResult # NoGraph
    /\ \A i \in 1..Len(PackagesRead) : PackagesRead[i].defaultChannel = NULL
    /\ Len(NamedChannelsRead) = 2
    /\ NamedChannelsRead[1].name = "stable"
    /\ NamedChannelsRead[2].name = "fast"
    /\ NamedChannelsRead[2].entries = <<BundleV2, BundleV3>>
    /\ graphResult.defaultChannel = "stable"
    /\ \E c \in Range(graphResult.channels) :
          c.name = "fast" /\ c.versions = <<BundleV3, BundleV2>>

\* The graph reduced to what C18 compares: the default channel, and the
\* channels with the versions of each.
GraphContent(graph) ==
    [defaultChannel |-> graph.defaultChannel,
     channels |-> {[name |-> c.name, versions |-> Range(c.versions)] :
                      c \in Range(graph.channels)}]

(* C18.  The graph does not depend on the order in which the parsed        *)
(* objects are processed: every permutation of the object list gives the   *)
(* same defaultChannel, the same channels and the same versions for each   *)
(* channel.                                                                *)
C18_OrderIndependent ==
    graphResult # NoGraph =>
        \A p \in Permutations(1..Len(graphObjects)) :
            GraphContent(extractChannelsAndVersions(
                [i \in 1..Len(graphObjects) |-> graphObjects[p[i]]]))
                = GraphContent(graphResult)

\* Vocabulary of the properties of the Decoder: the catalog object that a
\* text without white space denotes, and the directory without its i-th
\* file.
ObjectOf(text) == [type |-> "object", text |-> text, elements |-> <<>>]

WithoutFile(files, i) ==
    SubSeq(files, 1, i - 1) \o SubSeq(files, i + 1, Len(files))

(* C15.  When each file of the directory is a .json file that holds two    *)
(* valid objects concatenated with no separator, the Decoder emits, for    *)
(* each file in turn, exactly those two objects, in file order, and logs   *)
(* nothing.                                                                *)
C15_Concatenated ==
    (/\ dirResult # NoDirectory
     /\ dirFiles # <<>>
     /\ \A i \in 1..Len(dirFiles) :
           /\ dirFiles[i].json
           /\ \E p, q \in {ObjectA, ObjectB} : dirFiles[i].content = p \o q)
        => /\ dirResult.ok
           /\ dirResult.warnings = <<>>
           /\ Len(dirResult.parsedObjects) = 2 * Len(dirFiles)
           /\ \A i \in 1..Len(dirFiles) :
                 dirFiles[i].content =
                     dirResult.parsedObjects[2 * i - 1].text
                        \o dirResult.parsedObjects[2 * i].text
           /\ \A k \in 1..Len(dirResult.parsedObjects) :
                 /\ dirResult.parsedObjects[k].type = "object"
                 /\ dirResult.parsedObjects[k].text \in {ObjectA, ObjectB}

\* A directory read whose first file holds the two objects, the one with
\* the brace and the escaped quote inside a string first.
C15_Witness ==
    /\ dirResult # NoDirectory
    /\ Len(dirFiles) > 0
    /\ \A i \in 1..Len(dirFiles) :
          /\ dirFiles[i].json
          /\ \E p, q \in {ObjectA, ObjectB} : dirFiles[i].content = p \o q
    /\ dirFiles[1].content = ObjectB \o ObjectA
    /\ dirResult.parsedObjects[1] = ObjectOf(ObjectB)
    /\ dirResult.parsedObjects[2] = ObjectOf(ObjectA)

(* C16.  When the only file of the directory is a .json file that holds    *)
(* one valid object followed by garbage, the Decoder emits exactly that    *)
(* object and records a skip.                                              *)
C16_TrailingGarbage ==
    (/\ dirResult # NoDirectory
     /\ Len(dirFiles) = 1
     /\ dirFiles[1].json
     /\ \E p \in {ObjectA, ObjectB} :
        \E g \in {GarbageWord, GarbageBraced, GarbageBracket} :
        \E sep \in Separators : dirFiles[1].content = p \o sep \o g)
        => /\ Len(dirResult.parsedObjects) = 1
           /\ dirResult.parsedObjects[1].text \in {ObjectA, ObjectB}
           /\ dirResult.warnings # <<>>

(* C17.  A file that no strategy can decode is logged and does not fail    *)
(* the directory parse: the objects emitted are those emitted for the      *)
(* directory without that file, in the same order.                         *)
C17_UnparsableSkipped ==
    dirResult # NoDirectory =>
        \A i \in 1..Len(dirFiles) :
            ~DecodeFile(dirFiles[i]).ok =>
                /\ dirResult.ok
                /\ dirFiles[i].name \in Range(dirResult.warnings)
                /\ dirResult.parsedObjects =
                       parseFBCDirectory(WithoutFile(dirFiles, i)).parsedObjects

\* A directory read in which a file that cannot be decoded comes before a
\* file that holds two objects.
C17_Witness ==
    /\ dirResult # NoDirectory
    /\ Len(dirFiles) >= 2
    /\ dirFiles[1].json
    /\ dirFiles[1].content = GarbageBraced
    /\ dirFiles[2].json
    /\ dirFiles[2].content = ObjectA \o <<Newline>> \o ObjectB
    /\ Len(dirResult.parsedObjects) >= 2
    /\ dirResult.warnings # <<>>

\* Vocabulary of the properties of a direct update request: the package
\* entries of its document that it does not remove, the package entries of
\* the answered document, the first update that updates.find returns for
\* an entry, and the versions the addDefaultChannels entries ask for.
ApiKeptPackages ==
    SelectSeq(AllPackages(apiReq.originalConfig.mirror.operators),
              LAMBDA p : p.name \notin Range(apiReq.removeOperators))

ApiOutputPackages == AllPackages(apiRes.yaml.mirror.operators)

NamedByRequest(name) ==
    \/ \E u \in Range(apiReq.updates) : u.name = name
    \/ \E a \in Range(apiReq.addDefaultChannels) : a.operator = name
    \/ \E d \in Range(apiReq.setDefaultChannelParam) : d.operator = name

MatchingUpdates(pkg) ==
    {k \in 1..Len(apiReq.updates) :
        LET u == apiReq.updates[k]
        IN /\ u.name = pkg.name
           /\ Len(pkg.channels) > 0
           /\ pkg.channels[1].name = IF u.originalChannel # NULL
                                     THEN u.originalChannel ELSE u.channel}

FirstMatchingUpdate(pkg) ==
    apiReq.updates[CHOOSE k \in MatchingUpdates(pkg) :
                      \A j \in MatchingUpdates(pkg) : k <= j]

LastAddVersion(name, channel) ==
    LET adds == {k \in 1..Len(apiReq.addDefaultChannels) :
                    /\ apiReq.addDefaultChannels[k].operator = name
                    /\ apiReq.addDefaultChannels[k].channel = channel}
    IN IF adds = {} THEN NULL
       ELSE apiReq.addDefaultChannels[CHOOSE k \in adds :
                                         \A j \in adds : j <= k].version

\* The markers that the setDefaultChannelParam entries set on a package
\* whose channels are those of out, in request order.
MarkersSet(out) ==
    SelectSeq(apiReq.setDefaultChannelParam,
              LAMBDA d : d.operator = out.name
                         /\ d.defaultChannel \notin ChannelNames(out))

\* Every step the request asks for on the input entry is visible on the
\* output entry.
StepsApplied(in, out) ==
    /\ Len(out.channels) >= Len(in.channels)
    /\ MatchingUpdates(in) # {} =>
          LET u == FirstMatchingUpdate(in)
              name == IF u.originalChannel # NULL THEN u.channel
                      ELSE in.channels[1].name
          IN out.channels[1] =
                 [name |-> name,
                  minVersion |-> IF LastAddVersion(in.name, name) # NULL
                                 THEN LastAddVersion(in.name, name)
                                 ELSE u.newVersion,
                  maxVersion |-> NULL]
    /\ \A a \in Range(apiReq.addDefaultChannels) :
          a.operator = in.name =>
             \E c \in Range(out.channels) :
                c = [name |-> a.channel,
                     minVersion |-> LastAddVersion(in.name, a.channel),
                     maxVersion |-> NULL]
    /\ MarkersSet(out) # <<>> =>
          out.defaultChannel =
              MarkersSet(out)[Len(MarkersSet(out))].defaultChannel
    /\ out.defaultChannel \notin ChannelNames(out)

(* C19.  The update endpoint answers either an error without a document   *)
(* or a document on which every requested step has been applied: the       *)
(* packages to remove are gone and the others are all there, in order;     *)
(* the first matching update, every addDefaultChannels entry and every     *)
(* setDefaultChannelParam entry of a package is visible on it; and no      *)
(* document is answered when the kind is wrong or when a pass throws on a  *)
(* package entry that has no channels.                                     *)
C19_NoPartialWrites ==
    apiRes # NoResponse =>
        /\ apiRes.status \in {200, 500}
        /\ apiRes.status = 500 =>
              /\ "yaml" \notin DOMAIN apiRes
              /\ ~apiRes.success
              /\ apiRes.error = "Failed to update ImageSetConfiguration"
        /\ apiRes.status = 200 =>
              /\ apiReq.originalConfig.kind = "ImageSetConfiguration"
              /\ Len(ApiOutputPackages) = Len(ApiKeptPackages)
              /\ \A i \in 1..Len(ApiKeptPackages) :
                    LET in == ApiKeptPackages[i]
                        out == ApiOutputPackages[i]
                    IN /\ out.name = in.name
                       /\ HasChannels(out) <=> HasChannels(in)
                       /\ ~HasChannels(in) =>
                             ~NamedByRequest(in.name) /\ out = in
                       /\ HasChannels(in) => StepsApplied(in, out)

\* An error answered after the first pass rewrote a package: the document
\* is valid, its first entry has an update that matches it, and an
\* addDefaultChannels entry names a later entry that has no channels.
C19_Witness ==
    /\ apiRes # NoResponse
    /\ apiRes.status = 500
    /\ apiReq.originalConfig.kind = "ImageSetConfiguration"
    /\ Len(ApiKeptPackages) = 2
    /\ HasChannels(ApiKeptPackages[1])
    /\ MatchingUpdates(ApiKeptPackages[1]) # {}
    /\ ~HasChannels(ApiKeptPackages[2])
    /\ \E a \in Range(apiReq.addDefaultChannels) :
          a.operator = ApiKeptPackages[2].name

\* The entry that the version comparison gives for a request of the one
\* package pkg.
EntryAlone(pkg) ==
    GetLatestVersions(catalogFs,
                      [catalog |-> parsedConfig.catalog,
                       version |-> parsedConfig.version,
                       packages |-> <<pkg>>]).versionInfo[1]

(* C20.  The version comparison answers exactly one entry for each package *)
(* of the request, in request order; an entry is the one the package gets  *)
(* when it is requested alone, whatever happens to the other packages; and *)
(* a missing operator, a directory that cannot be parsed and a missing     *)
(* channel are each recorded on the entry of the package concerned.        *)
C20_PerOperator ==
    parsedConfig # NoParsed =>
        /\ Len(currentVersionInfo) = Len(parsedConfig.packages)
        /\ \A i \in 1..Len(parsedConfig.packages) :
              LET pkg == parsedConfig.packages[i]
                  info == currentVersionInfo[i]
                  graph == catalogFs[pkg.name]
                  latest == LatestOf(graph, pkg.channel)
              IN /\ info.name = pkg.name
                 /\ info.channel = pkg.channel
                 /\ info.currentVersion = pkg.version
                 /\ info = EntryAlone(pkg)
                 /\ info.operatorNotFound <=> ~graph.found
                 /\ (graph.found /\ ~graph.parsed) =>
                       /\ info.error = "Failed to parse FBC directory"
                       /\ ~info.channelNotFound
                 /\ info.channelNotFound <=>
                       (graph.found /\ graph.parsed /\ latest = NULL)
                 /\ info.error = NULL <=> latest # NULL
                 /\ latest # NULL =>
                       /\ info.latestVersion = latest
                       /\ info.hasUpdate <=> latest # pkg.version
                 /\ latest = NULL =>
                       /\ info.latestVersion = pkg.version
                       /\ ~info.hasUpdate

\* A comparison of two packages of different operators: the directory of
\* the first cannot be parsed, the second has an update.
C20_Witness ==
    /\ parsedConfig # NoParsed
    /\ Len(currentVersionInfo) = 2
    /\ currentVersionInfo[1].name # currentVersionInfo[2].name
    /\ currentVersionInfo[1].error = "Failed to parse FBC directory"
    /\ currentVersionInfo[2].hasUpdate

----------------------------------------------------------------------------
(* Claims C21 - C30                                                        *)

\* The operators of the rendered comparison that are flagged channelNotFound
\* and not operatorNotFound.
OperatorsRequiringReplacement ==
    {currentVersionInfo[i].name : i \in
        {j \in 1..Len(currentVersionInfo) :
            /\ currentVersionInfo[j].channelNotFound
            /\ ~currentVersionInfo[j].operatorNotFound}}

AllReplaced ==
    \A operator \in OperatorsRequiringReplacement :
        MapHas(channelReplacements, operator)

(* C21.  ChannelNotFound gating: whatever files are picked, whatever        *)
(* replacement channels are selected and whatever is rendered again, in    *)
(* any order of the responses, the Update button is enabled only when      *)
(* every operator flagged channelNotFound (and not operatorNotFound) has   *)
(* a replacement channel recorded, and an update request has only been     *)
(* sent in such a state.                                                   *)
C21_Gated ==
    /\ ~updateButtonDisabled => AllReplaced
    /\ updateRes # NoResponse => AllReplaced

\* A request was sent for a comparison in which two operators needed a
\* replacement, after both got one.
C21_Witness ==
    /\ updateRes # NoResponse
    /\ Cardinality(OperatorsRequiringReplacement) = 2
    /\ AllReplaced

\* The default-channel actions an update request carries for an operator.
ActionsSent(body, operator) ==
    {action \in {"add", "replace", "none"} :
        LET list == IF action = "add" THEN body.addDefaultChannels
                    ELSE IF action = "replace"
                    THEN body.replaceWithDefaultChannels
                    ELSE body.setDefaultChannelParam
        IN \E i \in 1..Len(list) : list[i].operator = operator}

(* C22.  The default-channel action is one choice among three: whatever is *)
(* rendered and whichever radios are selected, no operator is in both      *)
(* defaultChannelAdditions and defaultChannelReplacements, and in an       *)
(* update request every operator is in at most one of addDefaultChannels,  *)
(* replaceWithDefaultChannels and setDefaultChannelParam.                  *)
C22_Exclusive ==
    /\ \A operator \in Ops :
          ~(/\ MapHas(defaultChannelAdditions, operator)
            /\ MapHas(defaultChannelReplacements, operator))
    /\ updateRes # NoResponse =>
          \A operator \in Ops :
             Cardinality(ActionsSent(updateReq, operator)) <= 1

\* A request was sent after Replace was selected for an operator.
C22_Witness ==
    /\ updateRes # NoResponse
    /\ \E operator \in Ops : ActionsSent(updateReq, operator) = {"replace"}

\* The catalogs the README lists under "Available Catalogs".
DocumentedCatalogs ==
    {"redhat-operator-index", "certified-operator-index",
     "community-operator-index", "redhat-marketplace-index"}

\* The fetch-operators requests the server has received.
FetchRequests ==
    {r \in 1..MaxRequests :
        /\ requests[r].stage # "none"
        /\ requests[r].endpoint = "fetch-operators"}

Malformed(req) ==
    \/ req.catalog \in {NULL, ""}
    \/ req.version \in {NULL, ""}
    \/ req.catalog \notin DocumentedCatalogs

(* C23.  POST /api/fetch-operators answers a request whose catalog or      *)
(* version is missing, or whose catalog is not one of the four documented  *)
(* catalogs, with the error status 400, and has then attempted no image    *)
(* pull, no container creation and no change of the cache directory for    *)
(* it.                                                                     *)
C23_RejectedFirst ==
    \A r \in FetchRequests :
        Malformed(requests[r]) =>
            /\ requests[r].stage = "done"
            /\ requests[r].status = 400
            /\ requests[r].effects = {}
            /\ requests[r].containerId = 0
            /\ ~requests[r].tempDir

\* A request for a catalog that is not in the list was refused while
\* another request had extracted the catalog.
C23_Witness ==
    /\ cache = "full"
    /\ \E r \in FetchRequests :
          /\ requests[r].catalog = "operator-index"
          /\ requests[r].version = "v4.20"
          /\ requests[r].status = 400

(* C24.  Temporary containers are cleaned up: when the response of a       *)
(* request (fetch-operators, operator-details or get-latest-versions) has  *)
(* been sent, on the success path and on every error path, the container   *)
(* that request created is no longer there.                                *)
C24_ContainersRemoved ==
    \A r \in 1..MaxRequests :
        requests[r].stage = "done" => r \notin containers

(* C25.  Final step of the Reconciler: a successful response holds no      *)
(* package entry with zero channel constraints, and a request that leaves  *)
(* no package at all is answered with a document without operator entries *)
(* and not with an error.                                                  *)
C25_EmptyDropped ==
    apiRes # NoResponse =>
        /\ apiRes.status = 200 =>
              \A p \in Range(ApiOutputPackages) :
                  HasChannels(p) /\ Len(p.channels) > 0
        /\ (/\ apiReq.originalConfig.kind = "ImageSetConfiguration"
            /\ ApiKeptPackages = <<>>) =>
              /\ apiRes.status = 200
              /\ apiRes.yaml.mirror.operators = <<>>

\* The index after the bracket that closes the first top-level group of
\* braces and brackets of a text, 0 when no group closes or a closing
\* character does not match what is open.  A string runs from a quote to
\* the next quote that no backslash of the string escapes, and nothing in
\* it opens or closes anything.
RECURSIVE TopLevelEnd(_, _, _, _)
TopLevelEnd(s, i, open, inString) ==
    IF i > Len(s) THEN 0
    ELSE IF inString
    THEN IF s[i] = Backslash THEN TopLevelEnd(s, i + 2, open, TRUE)
         ELSE TopLevelEnd(s, i + 1, open, s[i] # Quote)
    ELSE IF s[i] = Quote THEN TopLevelEnd(s, i + 1, open, TRUE)
    ELSE IF s[i] \in {"{", "["}
    THEN TopLevelEnd(s, i + 1, <<s[i]>> \o open, FALSE)
    ELSE IF s[i] \in {"}", "]"}
    THEN IF open = <<>> \/ open[1] # (IF s[i] = "}" THEN "{" ELSE "[")
         THEN 0
         ELSE IF Len(open) = 1 THEN i + 1
         ELSE TopLevelEnd(s, i + 1, Tail(open), FALSE)
    ELSE TopLevelEnd(s, i + 1, open, FALSE)

\* C26 as the specification words it, for every text.
C26_AsStated ==
    scanEnd # NotScanned => scanEnd = TopLevelEnd(scanText, 1, <<>>, FALSE)

(* C26.  Brace scan: on every text that begins with a well-formed object   *)
(* or array, whose strings may hold braces, brackets, escaped quotes and   *)
(* escaped backslashes, the candidate span ends exactly at the '}' or ']'  *)
(* that closes that value.                                                 *)
C26_WellFormed ==
    LET value == ParseValue(scanText, 1)
    IN (/\ scanEnd # NotScanned
        /\ value.ok
        /\ value.value.type \in {"object", "array"})
          => scanEnd = value.next

\* An array was scanned whose string holds a bracket and which more text
\* follows, or whose string holds an escaped quote.
C26_Witness ==
    \/ /\ scanText = <<"[", Quote, "]", Quote, "]", "]">>
       /\ scanEnd = 6
    \/ /\ scanText = <<"[", Quote, Backslash, Quote, Quote, "]">>
       /\ scanEnd = 7

(* C27.  Decoder resynchronization: when a .json file holds a candidate    *)
(* that fails to scan or to parse and, after it, a well-formed object,     *)
(* that object is still emitted.                                           *)
C27_Resynchronized ==
    (/\ dirResult # NoDirectory
     /\ Len(dirFiles) = 1
     /\ dirFiles[1].json)
        => \A g \in {GarbageWord, GarbageBraced, GarbageBracket} :
           \A sep \in Separators :
           \A p \in {ObjectA, ObjectB} :
              dirFiles[1].content = g \o sep \o p =>
                 \E k \in 1..Len(dirResult.parsedObjects) :
                    dirResult.parsedObjects[k] = ObjectOf(p)

(* C28.  Cache integrity under concurrency: a handler that found the       *)
(* catalog's cache present and treated it as cached reads a fully          *)
(* extracted configs tree, never a missing or partially extracted one.     *)
C28_CachedIsComplete ==
    \A r \in 1..MaxRequests :
        (/\ requests[r].stage # "none"
         /\ requests[r].cached
         /\ requests[r].read # "none") => requests[r].read = "full"

\* The rendered checkboxes that come from a channel replacement, for the
\* operators that are rendered once.
ReplacedBoxes ==
    {items[i].checkbox : i \in
        {j \in 1..Len(items) :
            /\ items[j].checkbox.present
            /\ items[j].checkbox.originalChannel # NULL
            /\ \A k \in 1..Len(items) :
                  items[k].select.operator = items[j].select.operator
                      => k = j}}

(* C29.  A chosen channel replacement is never lost on the way to the      *)
(* server: every entry of versionUpdates for an operator whose channel was *)
(* replaced carries originalChannel equal to the configured channel.       *)
C29_ReplacementCarried ==
    \A box \in ReplacedBoxes :
    \A k \in 1..Len(versionUpdates) :
        versionUpdates[k].name = box.name
            => versionUpdates[k].originalChannel = box.originalChannel

(* C30.  Every update request pairs a configuration file with actions      *)
(* computed from that same file: the originalConfig it sends is the file   *)
(* whose version comparison produced currentVersionInfo, the rendered      *)
(* checkboxes and the default-channel maps it is built from.               *)
C30_SameFile ==
    updateRes # NoResponse => updateReq.originalConfig = comparedFile

(* C35.  Reconciler frame: the package entries of a successful run are the *)
(* entries that are not removed, in their input order; an entry that no    *)
(* update, add-default or set-default-marker action names is output with   *)
(* the channel constraints of the input, and with its defaultChannel       *)
(* marker unless the marker names one of its constraints.                  *)
C35_Frame ==
    (apiRes # NoResponse /\ apiRes.status = 200) =>
        /\ Len(ApiOutputPackages) = Len(ApiKeptPackages)
        /\ \A i \in 1..Len(ApiKeptPackages) :
              LET in == ApiKeptPackages[i]
                  out == ApiOutputPackages[i]
              IN /\ out.name = in.name
                 /\ ~NamedByRequest(in.name) =>
                       out = IF /\ HasChannels(in)
                                /\ in.defaultChannel \in ChannelNames(in)
                             THEN [in EXCEPT !.defaultChannel = NULL]
                             ELSE in

\* A successful run on two entries of different operators, of which one is
\* updated and the other, with a constraint, is named by nothing.
C35_Witness ==
    /\ apiRes # NoResponse
    /\ apiRes.status = 200
    /\ Len(ApiKeptPackages) = 2
    /\ ApiKeptPackages[1].name # ApiKeptPackages[2].name
    /\ \E i \in 1..2 :
          /\ ~NamedByRequest(ApiKeptPackages[i].name)
          /\ HasChannels(ApiKeptPackages[i])
          /\ Len(ApiKeptPackages[i].channels) > 0
          /\ MatchingUpdates(ApiKeptPackages[3 - i]) # {}
          /\ ApiOutputPackages[3 - i] # ApiKeptPackages[3 - i]

(* C36.  Every document returned by a successful Reconciler run is         *)
(* accepted by the Config Parser, for any input document that itself       *)
(* parses and any set of actions.                                          *)
C36_OutputParses ==
    (/\ apiRes # NoResponse
     /\ apiRes.status = 200
     /\ parseImageSetConfig(apiReq.originalConfig).ok)
        => parseImageSetConfig(apiRes.yaml).ok

(* C37.  An update is offered only for a strictly newer version: an entry  *)
(* of the version comparison has hasUpdate only when the channel's latest  *)
(* version is greater than the configured version under the numeric-aware  *)
(* comparison, and a successful update request lowers the minVersion of no *)
(* package.                                                                *)
C37_OnlyNewer ==
    /\ \A i \in 1..Len(currentVersionInfo) :
          currentVersionInfo[i].hasUpdate =>
             CompareVersions(currentVersionInfo[i].latestVersion,
                             currentVersionInfo[i].currentVersion) > 0
    /\ (updateRes # NoResponse /\ updateRes.status = 200) =>
          LET in == AllPackages(updateReq.originalConfig.mirror.operators)
              out == AllPackages(updateRes.yaml.mirror.operators)
          IN \A i \in 1..Len(in) :
                CompareVersions(out[i].channels[1].minVersion,
                                in[i].channels[1].minVersion) >= 0

(* C38.  The decoder's stream scan terminates on every content: each       *)
(* iteration of the while loop either strictly advances the position or    *)
(* exits the loop, also when a candidate fails to parse and the scan       *)
(* jumps to the next opening character; and the loop does exit.            *)
C38_Terminates ==
    /\ [][loopState = "running" =>
             (loopPosition' > loopPosition \/ loopState' = "exited")]_vars
    /\ (loopState = "running") ~> (loopState = "exited")

\* The loop has exited after a candidate that failed to parse, a jump to
\* the next opening character and a push of the array found there.
C38_Witness ==
    /\ loopState = "exited"
    /\ loopContent = <<"{", "[", "]", "}">>
    /\ Len(loopObjects) = 1


(* C39.  The log panel never holds more than 500 entries: after any        *)
(* sequence of addLogEntry and clearLogs calls from the loaded page the    *)
(* panel holds at most LogLimit entries, and they are the latest ones in   *)
(* the order of their calls, so that an entry removed at the limit is the  *)
(* oldest one.                                                             *)
C39_Capped ==
    /\ Len(logsContent) <= LogLimit
    /\ \A i \in 1..Len(logsContent) :
          logsContent[i] = logCalls - Len(logsContent) + i

\* The panel is full and its oldest entries, the markup's among them, have
\* been removed.
C39_Witness ==
    /\ Len(logsContent) = LogLimit
    /\ logsContent[1] > 1
    /\ logsContent[LogLimit] = logCalls

(* C33.  On the Fetch tab a View Details navigation carries an operator    *)
(* that the server lists for the catalog and version of the same URL, and  *)
(* the options of the operator dropdown are those of the catalog and       *)
(* version currently selected.                                             *)
C33_ListedTogether ==
    /\ navigation # NotNavigated =>
          navigation.operator \in
              Range(ListedOperators(navigation.catalog, navigation.version))
    /\ fetchTab.operatorOptions # <<>> =>
          /\ fetchTab.catalogSelect # ""
          /\ fetchTab.versionSelect # ""
          /\ fetchTab.operatorOptions =
                ListedOperators(fetchTab.catalogSelect, fetchTab.versionSelect)

(* C34.  While a fetch-operators request of the Fetch tab is in flight     *)
(* the Fetch button is disabled, and at most one such request is           *)
(* outstanding.                                                            *)
C34_SingleFlight ==
    /\ Waiting(fetchCalls) # {} => fetchTab.fetchDisabled
    /\ Cardinality(Waiting(fetchCalls)) <= 1

\* The selection names an operator that the server lists for the catalog
\* and version, one of its channels there and a version of that channel.
FromData(sel, catalog, version) ==
    /\ sel.operator \in Range(ListedOperators(catalog, version))
    /\ \E i \in ChannelsNamed(
                    OperatorDetails(catalog, version, sel.operator).channels,
                    sel.channel) :
          sel.version \in
              Range(OperatorDetails(catalog, version,
                                    sel.operator).channels[i].versions)

(* C31.  On the Create tab every selection that a generate request         *)
(* carries was chosen from the operator data of the catalog and version    *)
(* that the request carries.                                               *)
C31_SelectionsOfRequest ==
    \A i \in 1..Len(createReq.selections) :
        FromData(createReq.selections[i], createReq.catalog,
                 createReq.version)

(* C32.  On the Create tab the channel, version and default channel of a   *)
(* selection are those of the operator it names: a response for another    *)
(* operator never leaves its channels or default channel on it.            *)
C32_DetailsOfOperator ==
    \A i \in 1..Len(createTab.selectedOperators) :
        LET sel == createTab.selectedOperators[i]
        IN \E catalog \in ConfigCatalogs, version \in TabVersions :
              /\ FromData(sel, catalog, version)
              /\ sel.defaultChannel =
                    OperatorDetails(catalog, version,
                                    sel.operator).defaultChannel
====
